---------------------------- MODULE Spec2Model ----------------------------
(***************************************************************************)
(* A model of the laitos maintenance daemon (package maintenance):         *)
(*   - Daemon.Initialise, Daemon.StartAndBlock and Daemon.Stop: the        *)
(*     periodic loop, its stop channel, its running flag and the           *)
(*     process-wide emergency lock-down flag (specification Spec);         *)
(*   - Daemon.Execute: system maintenance, the four concurrent checks      *)
(*     joined by a WaitGroup, and the composition of the report            *)
(*     (specification ExecSpec).                                           *)
(*                                                                         *)
(* Time is wall-clock time in seconds.  The clock advances in steps of ten *)
(* minutes, the greatest common unit of the program's timing constants.    *)
(* A step of the loop that does not block (the lock-down test, the stores  *)
(* to the flag, the hand-over of a stop message, the firing of a timer     *)
(* that is due) takes no model time: the clock stands still while such a   *)
(* step is pending.  Only a wait for a timer that is not yet due and a     *)
(* running Execute let time pass.                                          *)
(***************************************************************************)
EXTENDS Integers, Sequences, FiniteSets, TLC

(***************************************************************************)
(* Program constants                                                       *)
(***************************************************************************)
\* const MinimumIntervalSec = 3600
MinimumIntervalSec == 3600

\* daemon.IntervalSec = 24 * 3600 when the configured value is below 1
DefaultIntervalSec == 24 * 3600

\* nextRunAt := time.Now().Add(10 * time.Minute), in seconds
FirstRunDelaySec == 600

(***************************************************************************)
(* Bounds of the model                                                     *)
(***************************************************************************)
\* the clock stops advancing at MaxTime seconds
MaxTime == 9000

\* StartAndBlock is called no later than MaxStartTime seconds
MaxStartTime == 600

\* number of goroutines that call Stop (each calls it once)
NumStoppers == 2

\* the clock advances by this many seconds at a time
ClockStepSec == FirstRunDelaySec

\* values of the IntervalSec configuration key that are tried
IntervalInputs == {-1, 0, 1, 3599, 3600, 4200}

Stoppers == 1..NumStoppers

VARIABLES
    now,            \* wall-clock time, seconds
    pc,             \* position of the daemon's owner / of StartAndBlock
    cfgIntervalSec, \* IntervalSec as deserialised from the configuration
    IntervalSec,    \* daemon.IntervalSec
    initErr,        \* result of Initialise: "none" (not called), "nil", "error"
    t0,             \* time at which StartAndBlock was called
    nextRunAt,      \* StartAndBlock's local nextRunAt
    firstTime,      \* StartAndBlock's local firstTime
    loopIsRunning,  \* daemon.loopIsRunning
    EmergencyLockDown, \* misc.EmergencyLockDown
    ret,            \* StartAndBlock's return value: "none", "nil", "ErrEmergencyLockDown"
    stopper,        \* position of each Stop call
    stopCas,        \* per Stop call: what the loop was doing when Stop was called
    execStarts,     \* start time of every Execute the loop has started
    execEnds,       \* finish time of every Execute that has returned
    execsAtLock,    \* number of Executes started when the lock-down flag was set
    \* ---- one call of Daemon.Execute ----
    epc,            \* position of the goroutine that called Execute
    CheckTCPPorts,  \* daemon.CheckTCPPorts
    onCloud,        \* inet.IsGCE() || inet.IsAzure()
    listening,      \* the (host, port) destinations that accept a TCP connection
    FeaturesToTest, \* daemon.FeaturesToTest != nil
    MailCmdRunnerToTest, \* daemon.MailCmdRunnerToTest != nil
    HTTPHandlersToCheck, \* daemon.HTTPHandlersToCheck != nil
    maintResult,    \* Execute's local maintResult
    waitAllChecks,  \* counter of the WaitGroup waitAllChecks
    spawned,        \* number of check goroutines started so far
    branch,         \* position of each check goroutine
    checkErr,       \* portsErr, featureErr, mailCmdRunnerErr, httpHandlersErr
    allOK,          \* Execute's local allOK
    result,         \* Execute's local result buffer, a sequence of sections
    mailErr         \* what MailClient.Send returned: "none", "nil", "error"

loopVars == <<now, pc, cfgIntervalSec, IntervalSec, initErr, t0, nextRunAt,
              firstTime, loopIsRunning, EmergencyLockDown, ret, stopper,
              stopCas, execStarts, execEnds, execsAtLock>>

execVars == <<epc, CheckTCPPorts, onCloud, listening, FeaturesToTest, MailCmdRunnerToTest,
              HTTPHandlersToCheck, maintResult, waitAllChecks, spawned, branch,
              checkErr, allOK, result, mailErr>>

\* ---- one call of Daemon.SystemMaintenance ----
VARIABLES
    mpc,            \* position inside SystemMaintenance
    pkgManagerName, \* the package manager found, "" when there is none
    maintRet,       \* the ret buffer, one record per line written
    pkgIndex,       \* how many of pkgs have been installed
    lastRun,        \* the program invoked last, with its unmodified outcome
    StartupTime,    \* misc.StartupTime
    wallClock       \* the system clock, what time.Now() returns

maintVars == <<mpc, pkgManagerName, maintRet, pkgIndex, lastRun,
               StartupTime, wallClock>>

\* no program has been invoked
NoRun == [prog |-> "", result |-> "", err |-> ""]

\* SystemMaintenance has not been called
MaintIdle ==
    /\ mpc = "idle"
    /\ pkgManagerName = ""
    /\ maintRet = <<>>
    /\ pkgIndex = 0
    /\ lastRun = NoRun
    /\ StartupTime = 0
    /\ wallClock = 0

\* ---- one call of dnsd.ExtractNamesFromHostsContent ----
VARIABLES
    hpc,            \* "idle", "called" or "returned"
    hostsLines,     \* the lines the hosts file was written from
    content,        \* the argument: the lines joined by line feeds
    names           \* the names returned

hostsVars == <<hpc, hostsLines, content, names>>

\* ExtractNamesFromHostsContent has not been called
HostsIdle ==
    /\ hpc = "idle"
    /\ hostsLines = <<>>
    /\ content = ""
    /\ names = <<>>

\* ---- one call of dnsd.DownloadAllBlacklists ----
VARIABLES
    bpc,            \* position of DownloadAllBlacklists
    wg,             \* the counter of the WaitGroup
    spawnedURLs,    \* how many go statements have been executed
    dpc,            \* position of the goroutine of each URL
    resp,           \* what inet.DoHTTP gave the goroutine of each URL
    lists,          \* lists[i], empty while nil
    blacklist       \* the slice returned

blacklistVars == <<bpc, wg, spawnedURLs, dpc, resp, lists, blacklist>>

\* DownloadAllBlacklists has not been called
BlacklistIdle ==
    /\ bpc = "idle"
    /\ wg = 0
    /\ spawnedURLs = 0
    /\ dpc = <<>>
    /\ resp = <<>>
    /\ lists = <<>>
    /\ blacklist = <<>>

\* the empty map
EmptyMap == [k \in {} |-> ""]

\* ---- one call of feature.FeatureSet.Initialise ----
VARIABLES
    fpc,            \* position of FeatureSet.Initialise
    isConfigured,   \* the features whose IsConfigured() is true
    initFails,      \* the features whose Initialise() returns an error
    ranged,         \* the entries of prefixes the loop has been through
    initialised,    \* the features whose Initialise() was called
    LookupByPrefix, \* fs.LookupByPrefix, a map from trigger to feature
    fsErr           \* the error returned, "<nil>" when nil

fsVars == <<fpc, isConfigured, initFails, ranged, initialised, LookupByPrefix,
            fsErr>>

\* FeatureSet.Initialise has not been called
FsIdle ==
    /\ fpc = "idle"
    /\ isConfigured = {}
    /\ initFails = {}
    /\ ranged = {}
    /\ initialised = {}
    /\ LookupByPrefix = EmptyMap
    /\ fsErr = ""

\* ---- one call of feature.FeatureSet.SelfTest ----
VARIABLES
    tpc,            \* position of FeatureSet.SelfTest
    tested,         \* the features in fs.LookupByPrefix at the call
    wait,           \* the counter of the WaitGroup
    gpc,            \* position of the goroutine of each feature
    testErr,        \* err of the goroutine of each feature
    retMutex,       \* the feature whose goroutine holds retMutex, "" if free
    selfTestRet     \* the map ret

testVars == <<tpc, tested, wait, gpc, testErr, retMutex, selfTestRet>>

\* FeatureSet.SelfTest has not been called
TestIdle ==
    /\ tpc = "idle"
    /\ tested = {}
    /\ wait = 0
    /\ gpc = EmptyMap
    /\ testErr = EmptyMap
    /\ retMutex = ""
    /\ selfTestRet = EmptyMap

\* ---- one benchmark of launcher.Benchmark: its loop and its reporter ----
VARIABLES
    benchStop,      \* bench.Stop
    lpc,            \* position of the benchmark loop
    rpc,            \* position of the goroutine that reports the rate
    counter,        \* counter of reportRatePerSecond
    total,          \* total of reportRatePerSecond
    tickPending,    \* a tick waits in ticker.C
    localCounter,   \* the counter declared inside the reporter's loop
    lastLog,        \* the numbers of the line logged last
    sinceReport,    \* trigger calls since the reporter last read the counter
    requests,       \* requests sent by the loop
    afterStop       \* what happened since bench.Stop is true

benchVars == <<benchStop, lpc, rpc, counter, total, tickPending, localCounter,
               lastLog, sinceReport, requests, afterStop>>

\* no line has been logged
NoLog == [rate |-> -1, total |-> -1, calls |-> -1, sum |-> -1]

\* nothing has happened since bench.Stop is true
NothingAfterStop == [requests |-> 0, ticks |-> 0]

\* no benchmark has been started
BenchIdle ==
    /\ benchStop = FALSE
    /\ lpc = "idle"
    /\ rpc = "idle"
    /\ counter = 0
    /\ total = 0
    /\ tickPending = FALSE
    /\ localCounter = 0
    /\ lastLog = NoLog
    /\ sinceReport = 0
    /\ requests = 0
    /\ afterStop = NothingAfterStop

\* ---- the rate limiter of one client key, and the requests of that client ----
\* the capacity of the bucket (PerIPLimit)
Capacity == 2
\* how many requests the client sends
NumRequests == 4
Requests == 1..NumRequests

VARIABLES
    limNow,        \* the wall clock, in ticks
    tokens,        \* the tokens left in the bucket
    lastRefillSec, \* the wall-clock second of the last refill
    bucketLock,    \* the request that holds the bucket's lock, or 0
    reqPc,         \* request -> where its task is
    arrivedAt,     \* request -> the tick at which it called Register, or -1
    decidedAt      \* request -> the tick at which Register decided, or -1

limiterVars ==
    <<limNow, tokens, lastRefillSec, bucketLock, reqPc, arrivedAt, decidedAt>>

LimiterIdle ==
    /\ limNow = 0
    /\ tokens = Capacity
    /\ lastRefillSec = 0
    /\ bucketLock = 0
    /\ reqPc = [i \in Requests |-> "idle"]
    /\ arrivedAt = [i \in Requests |-> -1]
    /\ decidedAt = [i \in Requests |-> -1]

\* ---- one text put through LintText.Lint, and its result put through again ----
VARIABLES
    lintPc,     \* "idle", "ready", "once", "twice"
    lintCfg,    \* the LintText configuration
    lintIn,     \* the input
    lintOut,    \* Lint(input)
    lintTwice   \* Lint(Lint(input))

lintVars == <<lintPc, lintCfg, lintIn, lintOut, lintTwice>>

NoLintCfg ==
    [TrimSpaces |-> FALSE, CompressSpaces |-> FALSE,
     KeepVisible7BitCharOnly |-> FALSE, CompressToSingleLine |-> FALSE,
     MaxLength |-> 0]

LintIdle ==
    /\ lintPc = "idle"
    /\ lintCfg = NoLintCfg
    /\ lintIn = <<>>
    /\ lintOut = <<>>
    /\ lintTwice = <<>>

\* ---- one request body put through the command pipeline ----
VARIABLES
    pinPc,      \* "idle", "auth", "expand", "parse", "done"
    pinBody,    \* the request body
    pinCmd,     \* the body as the pipeline has rewritten it so far
    pinRet,     \* the value Invoke returns
    pinRan,     \* the executions of features: <<trigger, argument>>
    pinPIN,     \* the PIN of the filter
    pinShortcuts \* the shortcuts of the filter: key -> command

pinVars == <<pinPc, pinBody, pinCmd, pinRet, pinRan, pinPIN, pinShortcuts>>

PinIdle ==
    /\ pinPc = "idle"
    /\ pinBody = ""
    /\ pinCmd = ""
    /\ pinRet = ""
    /\ pinRan = <<>>
    /\ pinPIN = ""
    /\ pinShortcuts = EmptyMap

moreVars == <<benchVars, limiterVars, lintVars, pinVars>>

\* none of the operations of the other packages has been called
MoreIdle == BenchIdle /\ LimiterIdle /\ LintIdle /\ PinIdle

restVars ==
    <<maintVars, hostsVars, blacklistVars, fsVars, testVars, moreVars>>

\* none of the other operations has been called
RestIdle ==
    /\ MaintIdle /\ HostsIdle /\ BlacklistIdle /\ FsIdle /\ TestIdle
    /\ MoreIdle

vars == <<loopVars, execVars, restVars>>

\* a Stop call that has not been made yet
NoCas ==
    [waiting |-> FALSE, afterReturn |-> FALSE, execs |-> -1, at |-> "none"]

(***************************************************************************)
(* Daemon.Initialise                                                       *)
(***************************************************************************)
\* the value Initialise leaves in daemon.IntervalSec
InitialisedInterval(configured) ==
    IF configured < 1 THEN DefaultIntervalSec ELSE configured

\* faulty variant of InitialiseFails: the minimum itself is rejected too
InitialiseFailsAtMinimum(configured) ==
    ~(configured < 1) /\ configured <= MinimumIntervalSec

\* TRUE iff Initialise returns an error
InitialiseFails(configured) ==
    ~(configured < 1) /\ configured < MinimumIntervalSec

Initialise ==
    /\ pc = "new"
    /\ IntervalSec' = InitialisedInterval(IntervalSec)
    /\ IF InitialiseFails(IntervalSec)
         THEN initErr' = "error" /\ pc' = "initfailed"
         ELSE initErr' = "nil" /\ pc' = "ready"
    /\ UNCHANGED <<now, cfgIntervalSec, t0, nextRunAt, firstTime, loopIsRunning,
                   EmergencyLockDown, ret, stopper, stopCas, execStarts,
                   execEnds, execsAtLock,
                   execVars, restVars>>

(***************************************************************************)
(* Daemon.StartAndBlock                                                    *)
(***************************************************************************)
\* firstTime := true; nextRunAt := time.Now().Add(10 * time.Minute)
StartAndBlock ==
    /\ pc = "ready"
    /\ firstTime' = TRUE
    /\ t0' = now
    /\ nextRunAt' = now + FirstRunDelaySec
    /\ pc' = "top"
    /\ UNCHANGED <<now, cfgIntervalSec, IntervalSec, initErr, loopIsRunning,
                   EmergencyLockDown, ret, stopper, stopCas, execStarts,
                   execEnds, execsAtLock,
                   execVars, restVars>>

\* faulty variant of LoopTop: the lock-down return leaves the running flag as it is
LoopTopKeepsFlag ==
    /\ pc = "top"
    /\ IF EmergencyLockDown
         THEN /\ loopIsRunning' = loopIsRunning
              /\ ret' = "ErrEmergencyLockDown"
              /\ pc' = "done"
         ELSE /\ loopIsRunning' = 1
              /\ ret' = ret
              /\ pc' = "select"
    /\ UNCHANGED <<now, cfgIntervalSec, IntervalSec, initErr, t0, nextRunAt,
                   firstTime, EmergencyLockDown, stopper, stopCas, execStarts,
                   execEnds, execsAtLock, execVars, restVars>>

\* faulty variant of LoopTop: the lock-down flag is tested on the first iteration only
LoopTopTestsOnce ==
    /\ pc = "top"
    /\ IF EmergencyLockDown /\ firstTime
         THEN /\ loopIsRunning' = 0
              /\ ret' = "ErrEmergencyLockDown"
              /\ pc' = "done"
         ELSE /\ loopIsRunning' = 1
              /\ ret' = ret
              /\ pc' = "select"
    /\ UNCHANGED <<now, cfgIntervalSec, IntervalSec, initErr, t0, nextRunAt,
                   firstTime, EmergencyLockDown, stopper, stopCas, execStarts,
                   execEnds, execsAtLock, execVars, restVars>>

\* top of the for loop: the lock-down test, then the store of 1 to the flag.
\* The test reads the value the flag has at that moment.  The test and the
\* store are one step: a Stop or a LockDown between them has the effect it
\* has right before or right after the pair.
LoopTop ==
    /\ pc = "top"
    /\ IF EmergencyLockDown
         THEN /\ loopIsRunning' = 0
              /\ ret' = "ErrEmergencyLockDown"
              /\ pc' = "done"
         ELSE /\ loopIsRunning' = 1
              /\ ret' = ret
              /\ pc' = "select"
    /\ UNCHANGED <<now, cfgIntervalSec, IntervalSec, initErr, t0, nextRunAt,
                   firstTime, EmergencyLockDown, stopper, stopCas, execStarts,
                   execEnds, execsAtLock,
                   execVars, restVars>>

\* faulty variant of TimerDue: the timer case of the select is always ready
TimerDueAlways == TRUE

\* time.After(time.Until(nextRunAt)) delivers once the clock has reached nextRunAt
TimerDue == now >= nextRunAt

\* faulty variant of NextRunAt: the next run is scheduled from the current time
NextRunAtFromNow(prev, interval) == now + interval

\* nextRunAt = nextRunAt.Add(time.Duration(daemon.IntervalSec) * time.Second)
NextRunAt(prev, interval) == prev + interval

\* faulty variant of TimerFire: a tick that was missed is dropped, the run is skipped
TimerFireDropsMissed ==
    /\ pc = "select"
    /\ TimerDue
    /\ nextRunAt' = NextRunAt(nextRunAt, IntervalSec)
    /\ IF now > nextRunAt
         THEN execStarts' = execStarts /\ pc' = "top"
         ELSE execStarts' = Append(execStarts, now) /\ pc' = "exec"
    /\ UNCHANGED <<now, cfgIntervalSec, IntervalSec, initErr, t0, firstTime,
                   loopIsRunning, EmergencyLockDown, ret, stopper, stopCas,
                   execEnds, execsAtLock, execVars, restVars>>

\* case <-time.After(...): reschedule, then call Execute
TimerFire ==
    /\ pc = "select"
    /\ TimerDue
    /\ nextRunAt' = NextRunAt(nextRunAt, IntervalSec)
    /\ execStarts' = Append(execStarts, now)
    /\ pc' = "exec"
    /\ UNCHANGED <<now, cfgIntervalSec, IntervalSec, initErr, t0, firstTime,
                   loopIsRunning, EmergencyLockDown, ret, stopper, stopCas,
                   execEnds, execsAtLock,
                   execVars, restVars>>

\* daemon.Execute() returns to the loop; firstTime = false; next iteration
ExecuteReturns ==
    /\ pc = "exec"
    /\ execEnds' = Append(execEnds, now)
    /\ firstTime' = FALSE
    /\ pc' = "top"
    /\ UNCHANGED <<now, cfgIntervalSec, IntervalSec, initErr, t0, nextRunAt,
                   loopIsRunning, EmergencyLockDown, ret, stopper, stopCas,
                   execStarts, execsAtLock,
                   execVars, restVars>>

\* case <-daemon.stop: the unbuffered channel hands over one sender's message
ReceiveStop(s) ==
    /\ pc = "select"
    /\ stopper[s] = "sending"
    /\ stopper' = [stopper EXCEPT ![s] = "sent"]
    /\ pc' = "stopped"
    /\ UNCHANGED <<now, cfgIntervalSec, IntervalSec, initErr, t0, nextRunAt,
                   firstTime, loopIsRunning, EmergencyLockDown, ret, stopCas,
                   execStarts, execEnds, execsAtLock,
                   execVars, restVars>>

\* faulty variant of ReturnNil: the stop case returns without the store of 0
ReturnNilKeepsFlag ==
    /\ pc = "stopped"
    /\ loopIsRunning' = loopIsRunning
    /\ ret' = "nil"
    /\ pc' = "done"
    /\ UNCHANGED <<now, cfgIntervalSec, IntervalSec, initErr, t0, nextRunAt,
                   firstTime, EmergencyLockDown, stopper, stopCas, execStarts,
                   execEnds, execsAtLock, execVars, restVars>>

\* faulty variant of ReturnNil: the stop case leaves the select, not the function
StopCaseBreaks ==
    /\ pc = "stopped"
    /\ loopIsRunning' = 0
    /\ firstTime' = FALSE
    /\ pc' = "top"
    /\ UNCHANGED <<now, cfgIntervalSec, IntervalSec, initErr, t0, nextRunAt,
                   ret, EmergencyLockDown, stopper, stopCas, execStarts,
                   execEnds, execsAtLock, execVars, restVars>>

\* atomic.StoreInt32(&daemon.loopIsRunning, 0); return nil
ReturnNil ==
    /\ pc = "stopped"
    /\ loopIsRunning' = 0
    /\ ret' = "nil"
    /\ pc' = "done"
    /\ UNCHANGED <<now, cfgIntervalSec, IntervalSec, initErr, t0, nextRunAt,
                   firstTime, EmergencyLockDown, stopper, stopCas, execStarts,
                   execEnds, execsAtLock,
                   execVars, restVars>>

\* a step of the loop is pending that takes no time.  A loop in the select
\* with a tick that is due or a sender at the channel is not waiting: it is
\* about to take that case.
Urgent ==
    \/ pc \in {"top", "stopped"}
    \/ pc = "select" /\ (TimerDue \/ \E s \in Stoppers : stopper[s] = "sending")

(***************************************************************************)
(* Daemon.Stop                                                             *)
(***************************************************************************)
\* faulty variant of CasSucceeds: Stop sends whatever the flag says
CasAlwaysSucceeds(flag) == TRUE

\* atomic.CompareAndSwapInt32(&daemon.loopIsRunning, 1, 0)
CasSucceeds(flag) == flag = 1

\* Stop: the CAS; on success the caller goes on to send on daemon.stop
Stop(s) ==
    /\ stopper[s] = "idle"
    /\ IF CasSucceeds(loopIsRunning)
         THEN /\ loopIsRunning' = 0
              /\ stopper' = [stopper EXCEPT ![s] = "sending"]
         ELSE /\ loopIsRunning' = loopIsRunning
              /\ stopper' = [stopper EXCEPT ![s] = "noop"]
    /\ stopCas' = [stopCas EXCEPT ![s] =
           [waiting |-> (pc = "select" /\ ~Urgent),
            afterReturn |-> (pc = "done"),
            execs |-> IF pc = "select" /\ ~Urgent THEN Len(execStarts) ELSE -1,
            at |-> IF pc = "exec" THEN "exec"
                   ELSE IF pc = "top" /\ firstTime THEN "first" ELSE "other"]]
    /\ UNCHANGED <<now, pc, cfgIntervalSec, IntervalSec, initErr, t0, nextRunAt,
                   firstTime, EmergencyLockDown, ret, execStarts, execEnds,
                   execsAtLock,
                   execVars, restVars>>

(***************************************************************************)
(* Environment                                                             *)
(***************************************************************************)
\* some component latches misc.EmergencyLockDown
LockDown ==
    /\ ~EmergencyLockDown
    /\ EmergencyLockDown' = TRUE
    /\ execsAtLock' = Len(execStarts)
    /\ UNCHANGED <<now, pc, cfgIntervalSec, IntervalSec, initErr, t0, nextRunAt,
                   firstTime, loopIsRunning, ret, stopper, stopCas, execStarts,
                   execEnds,
                   execVars, restVars>>

\* the clock is read by StartAndBlock only: it runs from Initialise until
\* StartAndBlock has returned
ClockRuns ==
    \/ pc = "ready" /\ now + ClockStepSec <= MaxStartTime
    \/ pc \in {"select", "exec"}

Tick ==
    /\ ClockRuns
    /\ ~Urgent
    /\ now + ClockStepSec <= MaxTime
    /\ now' = now + ClockStepSec
    /\ UNCHANGED <<pc, cfgIntervalSec, IntervalSec, initErr, t0, nextRunAt,
                   firstTime, loopIsRunning, EmergencyLockDown, ret, stopper,
                   stopCas, execStarts, execEnds, execsAtLock,
                   execVars, restVars>>

(***************************************************************************)
(* Daemon.Execute                                                          *)
(***************************************************************************)
\* the four check goroutines, in the order of their go statements
BranchOrder == <<"portsErr", "featureErr", "mailCmdRunnerErr", "httpHandlersErr">>

\* faulty variant of NumChecks: the WaitGroup counts one goroutine too few
NumChecksOneShort == Len(BranchOrder) - 1

\* waitAllChecks.Add(4)
NumChecks == 4

Branches == {BranchOrder[i] : i \in 1..Len(BranchOrder)}

\* an error value: nil, or an error that names the items that failed
NilErr == [isNil |-> TRUE, items |-> {}]

ErrOf(items) == [isNil |-> FALSE, items |-> items]

\* values of CheckTCPPorts that are tried: nil, or a set of (host, port)
PortConfigs ==
    { [isNil |-> TRUE, entries |-> {}],
      [isNil |-> FALSE, entries |-> {<<"localhost", 11334>>}],
      [isNil |-> FALSE, entries |-> {<<"localhost", 11334>>, <<"", 80>>, <<"mx", 25>>}] }

\* triggers of the features in FeaturesToTest.LookupByTrigger
Triggers == {".s", ".e"}

\* what SystemMaintenance may report
MaintResults == {"maintenance ok", "package manager failed"}

\* faulty variant of KnockedPorts: an empty host name is knocked too
KnockedPortsAnyHost(cfg, cloud) ==
    {d \in cfg.entries : ~(d[2] = 25 /\ cloud)}

\* runPortsCheck: the (host, port) pairs that are knocked
KnockedPorts(cfg, cloud) ==
    {d \in cfg.entries : d[1] # "" /\ ~(d[2] = 25 /\ cloud)}

\* runPortsCheck, given the set of destinations that accept a connection
runPortsCheck(cfg, cloud, open) ==
    IF cfg.isNil
      THEN NilErr
      ELSE LET portErrs == KnockedPorts(cfg, cloud) \ open
           IN  IF portErrs = {} THEN NilErr ELSE ErrOf(portErrs)

\* toolbox.FeatureSet.SelfTest, given the triggers whose self test fails
FeatureSetSelfTest(failing) ==
    IF failing = {} THEN NilErr ELSE ErrOf(failing)

\* the error values a check goroutine may assign to its variable
CheckOutcomes(b) ==
    CASE b = "portsErr" ->
           {runPortsCheck(CheckTCPPorts, onCloud, listening)}
      [] b = "featureErr" ->
           IF FeaturesToTest
             THEN {FeatureSetSelfTest(failing) : failing \in SUBSET Triggers}
             ELSE {NilErr}
      [] b = "mailCmdRunnerErr" ->
           IF MailCmdRunnerToTest THEN {NilErr, ErrOf({"mail command runner"})}
                                  ELSE {NilErr}
      [] b = "httpHandlersErr" ->
           IF HTTPHandlersToCheck THEN {NilErr, ErrOf({"HTTP handler"})}
                                  ELSE {NilErr}

\* faulty variant of ExecSystemMaintenance: the blacklist is refreshed too
ExecMaintenanceAndRefresh ==
    /\ epc = "called"
    /\ maintResult' \in MaintResults
    /\ bpc' = "called"
    /\ epc' = "add"
    /\ UNCHANGED <<CheckTCPPorts, onCloud, FeaturesToTest, MailCmdRunnerToTest,
                   HTTPHandlersToCheck, waitAllChecks, spawned, branch, checkErr,
                   allOK, result, mailErr, listening, loopVars, maintVars,
                   hostsVars, wg, spawnedURLs, dpc, resp, lists, blacklist,
                   fsVars, testVars, moreVars>>

\* maintResult := daemon.SystemMaintenance()
ExecSystemMaintenance ==
    /\ epc = "called"
    /\ maintResult' \in MaintResults
    /\ epc' = "add"
    /\ UNCHANGED <<CheckTCPPorts, onCloud, FeaturesToTest, MailCmdRunnerToTest,
                   HTTPHandlersToCheck, waitAllChecks, spawned, branch, checkErr,
                   allOK, result, mailErr, listening, loopVars, restVars>>

\* waitAllChecks := new(sync.WaitGroup); waitAllChecks.Add(4)
ExecAdd ==
    /\ epc = "add"
    /\ waitAllChecks' = NumChecks
    /\ epc' = "spawn"
    /\ UNCHANGED <<CheckTCPPorts, onCloud, FeaturesToTest, MailCmdRunnerToTest,
                   HTTPHandlersToCheck, maintResult, spawned, branch, checkErr,
                   allOK, result, mailErr, listening, loopVars, restVars>>

\* the next go func() statement
ExecSpawn ==
    /\ epc = "spawn"
    /\ spawned < Len(BranchOrder)
    /\ spawned' = spawned + 1
    /\ branch' = [branch EXCEPT ![BranchOrder[spawned + 1]] = "started"]
    /\ epc' = IF spawned' = Len(BranchOrder) THEN "wait" ELSE "spawn"
    /\ UNCHANGED <<CheckTCPPorts, onCloud, FeaturesToTest, MailCmdRunnerToTest,
                   HTTPHandlersToCheck, maintResult, waitAllChecks, checkErr,
                   allOK, result, mailErr, listening, loopVars, restVars>>

\* a check goroutine runs its check and assigns the error to its variable
BranchRun(b) ==
    /\ branch[b] = "started"
    /\ \E e \in CheckOutcomes(b) : checkErr' = [checkErr EXCEPT ![b] = e]
    /\ branch' = [branch EXCEPT ![b] = "assigned"]
    /\ UNCHANGED <<epc, CheckTCPPorts, onCloud, FeaturesToTest,
                   MailCmdRunnerToTest, HTTPHandlersToCheck, maintResult,
                   waitAllChecks, spawned, allOK, result, mailErr, listening, loopVars, restVars>>

\* waitAllChecks.Done()
BranchDone(b) ==
    /\ branch[b] = "assigned"
    /\ waitAllChecks' = waitAllChecks - 1
    /\ branch' = [branch EXCEPT ![b] = "done"]
    /\ UNCHANGED <<epc, CheckTCPPorts, onCloud, FeaturesToTest,
                   MailCmdRunnerToTest, HTTPHandlersToCheck, maintResult, spawned,
                   checkErr, allOK, result, mailErr, listening, loopVars, restVars>>

\* waitAllChecks.Wait() returns when the counter is zero
ExecWait ==
    /\ epc = "wait"
    /\ waitAllChecks = 0
    /\ epc' = "compose"
    /\ UNCHANGED <<CheckTCPPorts, onCloud, FeaturesToTest, MailCmdRunnerToTest,
                   HTTPHandlersToCheck, maintResult, waitAllChecks, spawned,
                   branch, checkErr, allOK, result, mailErr, listening, loopVars, restVars>>

\* faulty variant of AllOK: the HTTP handler check, added last, is left out
AllOKOfThree(errs) ==
    /\ errs["portsErr"].isNil
    /\ errs["featureErr"].isNil
    /\ errs["mailCmdRunnerErr"].isNil

\* allOK := portsErr == nil && featureErr == nil && mailCmdRunnerErr == nil && httpHandlersErr == nil
AllOK(errs) ==
    /\ errs["portsErr"].isNil
    /\ errs["featureErr"].isNil
    /\ errs["mailCmdRunnerErr"].isNil
    /\ errs["httpHandlersErr"].isNil

Section(tag, detail) == [tag |-> tag, detail |-> detail]

\* the section one check contributes to the report
CheckSection(err, okTag, errTag) ==
    IF err.isNil THEN Section(okTag, NilErr) ELSE Section(errTag, err)

\* the report, in the order of the WriteString calls
ComposeReport(ok, errs, maint) ==
    << Section(IF ok THEN "All OK" ELSE "There are errors!!!", NilErr),
       Section("GetRuntimeInfo", NilErr),
       Section("Daemon stats", NilErr),
       CheckSection(errs["portsErr"], "Ports: OK", "Port errors"),
       CheckSection(errs["featureErr"], "Features: OK", "Feature errors"),
       CheckSection(errs["mailCmdRunnerErr"], "Mail processor: OK", "Mail processor errors"),
       CheckSection(errs["httpHandlersErr"], "HTTP handlers: OK", "HTTP handler errors"),
       Section("System maintenance", ErrOf({maint})),
       Section("Warnings", NilErr),
       Section("Logs", NilErr),
       Section("Stack traces", NilErr) >>

\* "Results are ready, time to compose mail body."
ExecCompose ==
    /\ epc = "compose"
    /\ allOK' = AllOK(checkErr)
    /\ result' = ComposeReport(allOK', checkErr, maintResult)
    /\ epc' = "mail"
    /\ UNCHANGED <<CheckTCPPorts, onCloud, FeaturesToTest, MailCmdRunnerToTest,
                   HTTPHandlersToCheck, maintResult, waitAllChecks, spawned,
                   branch, checkErr, mailErr, listening, loopVars, restVars>>

\* faulty variant of ExecMailAndReturn: a failed Send discards the report
ExecMailFailureIsFatal ==
    /\ epc = "mail"
    /\ mailErr' \in {"nil", "error"}
    /\ result' = IF mailErr' = "error" THEN <<>> ELSE result
    /\ allOK' = IF mailErr' = "error" THEN FALSE ELSE allOK
    /\ epc' = "returned"
    /\ UNCHANGED <<CheckTCPPorts, onCloud, FeaturesToTest, MailCmdRunnerToTest,
                   HTTPHandlersToCheck, maintResult, waitAllChecks, spawned,
                   branch, checkErr, listening, loopVars, restVars>>

\* daemon.MailClient.Send(...); a failure is logged; return result, allOK
ExecMailAndReturn ==
    /\ epc = "mail"
    /\ mailErr' \in {"nil", "error"}
    /\ epc' = "returned"
    /\ UNCHANGED <<CheckTCPPorts, onCloud, FeaturesToTest, MailCmdRunnerToTest,
                   HTTPHandlersToCheck, maintResult, waitAllChecks, spawned,
                   branch, checkErr, allOK, result, listening, loopVars, restVars>>

(***************************************************************************)
(* Initial states and specifications                                       *)
(***************************************************************************)
\* the daemon as deserialised from the configuration, nothing called yet
LoopInit ==
    /\ now = 0
    /\ pc = "new"
    /\ cfgIntervalSec \in IntervalInputs
    /\ IntervalSec = cfgIntervalSec
    /\ initErr = "none"
    /\ t0 = 0
    /\ nextRunAt = 0
    /\ firstTime = FALSE
    /\ loopIsRunning = 0
    /\ EmergencyLockDown = FALSE
    /\ ret = "none"
    /\ stopper = [s \in Stoppers |-> "idle"]
    /\ stopCas = [s \in Stoppers |-> NoCas]
    /\ execStarts = <<>>
    /\ execEnds = <<>>
    /\ execsAtLock = 0

\* the locals of an Execute that has just been called
ExecLocalsInit ==
    /\ maintResult = ""
    /\ waitAllChecks = 0
    /\ spawned = 0
    /\ branch = [b \in Branches |-> "unborn"]
    /\ checkErr = [b \in Branches |-> NilErr]
    /\ allOK = FALSE
    /\ result = <<>>
    /\ mailErr = "none"

\* no Execute is looked at
ExecIdle ==
    /\ epc = "idle"
    /\ CheckTCPPorts = [isNil |-> TRUE, entries |-> {}]
    /\ onCloud = FALSE
    /\ listening = {}
    /\ FeaturesToTest = FALSE
    /\ MailCmdRunnerToTest = FALSE
    /\ HTTPHandlersToCheck = FALSE
    /\ ExecLocalsInit

\* Execute is called on a daemon with any of the configurations
ExecInit ==
    /\ epc = "called"
    /\ CheckTCPPorts \in PortConfigs
    /\ onCloud \in BOOLEAN
    /\ listening \in SUBSET CheckTCPPorts.entries
    /\ FeaturesToTest \in BOOLEAN
    /\ MailCmdRunnerToTest \in BOOLEAN
    /\ HTTPHandlersToCheck \in BOOLEAN
    /\ ExecLocalsInit

\* the daemon of an Execute that is called directly: Initialise not yet called
LoopIdle ==
    /\ LoopInit
    /\ cfgIntervalSec = 0

Init == LoopInit /\ ExecIdle /\ RestIdle

Next ==
    \/ Initialise
    \/ StartAndBlock
    \/ LoopTop
    \/ TimerFire
    \/ ExecuteReturns
    \/ \E s \in Stoppers : ReceiveStop(s)
    \/ ReturnNil
    \/ \E s \in Stoppers : Stop(s)
    \/ LockDown
    \/ Tick

\* the maintenance loop: Initialise, StartAndBlock, Stop and the lock-down flag
Spec == Init /\ [][Next]_vars

ExecNext ==
    \/ ExecSystemMaintenance
    \/ ExecAdd
    \/ ExecSpawn
    \/ \E b \in Branches : BranchRun(b)
    \/ \E b \in Branches : BranchDone(b)
    \/ ExecWait
    \/ ExecCompose
    \/ ExecMailAndReturn

ExecSpecInit == LoopIdle /\ ExecInit /\ RestIdle

\* one call of Execute
ExecSpec == ExecSpecInit /\ [][ExecNext]_vars

(***************************************************************************)
(* Properties of the maintenance loop (specification Spec)                 *)
(***************************************************************************)
\* StartAndBlock has been called
Started == pc \in {"top", "select", "exec", "stopped", "done"}

\* the scheduled time of the k-th Execute, counting from 1
Scheduled(k) == t0 + FirstRunDelaySec + (k - 1) * IntervalSec

\* the j-th Execute has returned within IntervalSec of its start
WithinInterval(j) == execEnds[j] - execStarts[j] <= IntervalSec

Later(a, b) == IF a >= b THEN a ELSE b

\* the first scheduled time that is not before t
FirstScheduledFrom(t) ==
    Scheduled(CHOOSE k \in 1..(MaxTime + 1) :
                 /\ Scheduled(k) >= t
                 /\ \A j \in 1..(k - 1) : Scheduled(j) < t)

\* C1: the schedule does not drift.  nextRunAt is always the first scheduled
\* time plus IntervalSec for every Execute started so far, whatever the
\* Executes took; and as long as no earlier Execute lasted longer than
\* IntervalSec, the k-th Execute starts exactly at t0 + 10 min + k*IntervalSec.
C1_ScheduleDoesNotDrift ==
    Started =>
        /\ nextRunAt = t0 + FirstRunDelaySec + Len(execStarts) * IntervalSec
        /\ \A k \in 1..Len(execStarts) :
               (\A j \in 1..(k - 1) : WithinInterval(j))
                   => execStarts[k] = Scheduled(k)

\* C1 witness: the third Execute starts on schedule after two Executes that
\* took time but stayed within the interval
C1_Witness ==
    /\ Len(execStarts) = 3
    /\ execEnds[1] > execStarts[1] /\ WithinInterval(1)
    /\ execEnds[2] > execStarts[2] /\ WithinInterval(2)
    /\ execStarts[3] = t0 + FirstRunDelaySec + 2 * IntervalSec

\* C2 as stated: a tick that an Execute ran past is dropped, so the Execute
\* after an overrunning one starts no earlier than the first scheduled time
\* that is not before the overrunning Execute's finish.
C2_MissedTickIsDropped ==
    \A k \in 2..Len(execStarts) :
        execEnds[k - 1] > Scheduled(k)
            => execStarts[k] >= FirstScheduledFrom(execEnds[k - 1])

\* C2 amended: a missed tick is not dropped, it is served late.  Every
\* Execute after the first starts at the later of its own scheduled time and
\* the finish of the Execute before it.
C2_MissedTickRunsLate ==
    \A k \in 2..Len(execStarts) :
        execStarts[k] = Later(Scheduled(k), execEnds[k - 1])

\* C2 witness: the first Execute ran past the second scheduled time and the
\* second Execute started the moment the first had finished
C2_Witness ==
    /\ Len(execStarts) >= 2
    /\ execEnds[1] > Scheduled(2)
    /\ execStarts[2] = execEnds[1]

\* C3: a Stop called while the loop waits for its next tick (the loop is
\* blocked in the select: the tick is not due, no sender is at the channel,
\* the flag is 1) gets its
\* message through: it never finds the loop elsewhere than in the select, no
\* Execute starts after the call, and once the message is taken StartAndBlock
\* returns nil with the flag at 0.
C3_StopWhileWaiting ==
    \A s \in Stoppers :
        stopCas[s].waiting =>
            /\ stopper[s] \in {"sending", "sent"}
            /\ Len(execStarts) = stopCas[s].execs
            /\ stopper[s] = "sending" => pc = "select"
            /\ stopper[s] = "sent" => pc \in {"stopped", "done"}
            /\ pc = "done" => (stopper[s] = "sent" /\ ret = "nil" /\ loopIsRunning = 0)

\* C3 witness: after at least one Execute, a Stop called during the wait has
\* returned and StartAndBlock has returned nil
C3_Witness ==
    \E s \in Stoppers :
        /\ stopCas[s].waiting
        /\ stopper[s] = "sent"
        /\ Len(execStarts) >= 1
        /\ pc = "done" /\ ret = "nil"

\* C4: a Stop called after StartAndBlock has returned is a no-op.  It has
\* returned without sending, and the flag is 0.
C4_StopAfterReturnIsNoOp ==
    \A s \in Stoppers :
        stopCas[s].afterReturn => (stopper[s] = "noop" /\ loopIsRunning = 0)

\* C4 witness: StartAndBlock returned on lock-down and every Stop call was
\* made after that
C4_Witness ==
    /\ pc = "done" /\ ret = "ErrEmergencyLockDown"
    /\ \A s \in Stoppers : stopCas[s].afterReturn /\ stopper[s] = "noop"

\* C5 as stated: once StartAndBlock has returned, no Stop caller is blocked
\* in its send on the stop channel.  (Nothing receives from the channel after
\* the return, so a caller blocked then stays blocked.)
C5_NoStopBlockedAfterReturn ==
    pc = "done" => \A s \in Stoppers : stopper[s] # "sending"

\* C6: a step that leaves the top of an iteration with the lock-down flag set
\* is the return of ErrEmergencyLockDown: the flag is reset to 0, no time
\* passes and no Execute is started.
C6_LockDownAtTop ==
    [][ (pc = "top" /\ EmergencyLockDown /\ pc' # pc)
            => /\ pc' = "done"
               /\ ret' = "ErrEmergencyLockDown"
               /\ loopIsRunning' = 0
               /\ now' = now
               /\ execStarts' = execStarts ]_vars

\* C6 witness: the loop has returned the sentinel after running an Execute,
\* although a Stop had cleared the flag and the loop had set it again
C6_Witness ==
    /\ pc = "done" /\ ret = "ErrEmergencyLockDown"
    /\ loopIsRunning = 0
    /\ Len(execEnds) >= 1
    /\ \E s \in Stoppers : stopper[s] = "noop"

\* C7 as stated: no Execute starts after the lock-down flag was set.
C7_NoExecuteAfterLockDown ==
    EmergencyLockDown => Len(execStarts) = execsAtLock

\* C7 amended: the loop polls the flag at the top of an iteration only.  At
\* most one Execute starts after the flag was set (the one whose tick the loop
\* was waiting for); after that Execute the loop does not wait again and
\* returns the sentinel.  A return of nil after the flag was set happens only
\* when a stop message was received.
C7_OneIterationAfterLockDown ==
    /\ EmergencyLockDown => Len(execStarts) <= execsAtLock + 1
    /\ (EmergencyLockDown /\ Len(execStarts) > execsAtLock)
           => /\ pc \in {"exec", "top", "done"}
              /\ pc = "done" => ret = "ErrEmergencyLockDown"
    /\ (EmergencyLockDown /\ pc = "done")
           => \/ ret = "ErrEmergencyLockDown"
              \/ ret = "nil" /\ \E s \in Stoppers : stopper[s] = "sent"
    /\ ret = "ErrEmergencyLockDown" => EmergencyLockDown

\* C7 witness: the flag was set during the wait, the tick's Execute still ran,
\* then the loop returned the sentinel
C7_Witness ==
    /\ EmergencyLockDown
    /\ Len(execStarts) = execsAtLock + 1
    /\ pc = "done" /\ ret = "ErrEmergencyLockDown"

\* C8: Initialise replaces an interval below 1 by 86400 and succeeds, rejects
\* an interval from 1 to 3599, and keeps an interval of 3600 or more.
C8_InitialiseInterval ==
    initErr # "none" =>
        /\ cfgIntervalSec <= 0 => (IntervalSec = 86400 /\ initErr = "nil")
        /\ (1 <= cfgIntervalSec /\ cfgIntervalSec < 3600) => initErr = "error"
        /\ cfgIntervalSec >= 3600 => (IntervalSec = cfgIntervalSec /\ initErr = "nil")

\* C8 witness: the smallest accepted interval was kept
C8_Witness ==
    /\ cfgIntervalSec = 3600
    /\ initErr = "nil"
    /\ IntervalSec = 3600

(***************************************************************************)
(* Properties of Execute (specification ExecSpec)                          *)
(***************************************************************************)
\* Execute has passed waitAllChecks.Wait()
PastWait == epc \in {"compose", "mail", "returned"}

\* allOK has been computed and the report composed
Composed == epc \in {"mail", "returned"}

\* the report has a section with this tag and this error
HasSection(tag, err) ==
    \E i \in 1..Len(result) : result[i].tag = tag /\ result[i].detail = err

\* C9: once Execute is past the Wait, all four check goroutines have assigned
\* their result and called Done; nothing of the report exists before that.
C9_BarrierJoin ==
    /\ PastWait => \A b \in Branches : branch[b] = "done"
    /\ result # <<>> => \A b \in Branches : branch[b] = "done"
    /\ (\E b \in Branches : branch[b] # "done") => (result = <<>> /\ ~allOK)

\* C9 witness: the report is composed and the goroutine started last has
\* reported an error
C9_Witness ==
    /\ epc = "mail"
    /\ \A b \in Branches : branch[b] = "done"
    /\ ~checkErr["httpHandlersErr"].isNil

\* C10: allOK is true exactly when all four checks returned nil, whatever
\* system maintenance reported; the report's first section is "All OK" exactly
\* when allOK is true; every failed check has its error section, carrying the
\* error, in the report.
C10_AllOKAndReport ==
    Composed =>
        /\ allOK = (\A b \in Branches : checkErr[b] = NilErr)
        /\ (result[1].tag = "All OK") = allOK
        /\ ~allOK => result[1].tag = "There are errors!!!"
        /\ checkErr["portsErr"] # NilErr
               => HasSection("Port errors", checkErr["portsErr"])
        /\ checkErr["featureErr"] # NilErr
               => HasSection("Feature errors", checkErr["featureErr"])
        /\ checkErr["mailCmdRunnerErr"] # NilErr
               => HasSection("Mail processor errors", checkErr["mailCmdRunnerErr"])
        /\ checkErr["httpHandlersErr"] # NilErr
               => HasSection("HTTP handler errors", checkErr["httpHandlersErr"])

\* C10 witness: Execute has returned; a broken feature made allOK false and
\* its trigger is in the report, while system maintenance had nothing to
\* complain about and the other checks passed
C10_Witness ==
    /\ epc = "returned"
    /\ ~allOK
    /\ maintResult = "maintenance ok"
    /\ \E i \in 1..Len(result) :
           result[i].tag = "Feature errors" /\ ".s" \in result[i].detail.items
    /\ \A b \in Branches \ {"featureErr"} : checkErr[b] = NilErr

(***************************************************************************)
(* Strings are TLA+ strings; the functions of Go's strings package         *)
(***************************************************************************)
\* s[i], as a string of one character
CharAt(s, i) == SubSeq(s, i, i)

\* s[i:], with i counted from 1
StrFrom(s, i) == SubSeq(s, i, Len(s))

\* the set of the elements of a sequence
Range(seq) == {seq[i] : i \in 1..Len(seq)}

\* strings.Contains
Contains(s, substr) ==
    \E i \in 1..(Len(s) - Len(substr) + 1) :
        SubSeq(s, i, i + Len(substr) - 1) = substr

\* unicode.IsSpace, for the characters that occur
IsSpace(c) == c \in {" ", "\t", "\n", "\r"}

\* the least and the greatest member of a non-empty set of integers
MinOf(S) == CHOOSE x \in S : \A y \in S : x <= y
MaxOf(S) == CHOOSE x \in S : \A y \in S : x >= y

\* strings.TrimSpace
TrimSpace(s) ==
    LET solid == {i \in 1..Len(s) : ~IsSpace(CharAt(s, i))}
    IN  IF solid = {} THEN "" ELSE SubSeq(s, MinOf(solid), MaxOf(solid))

(***************************************************************************)
(* Daemon.SystemMaintenance                                                *)
(***************************************************************************)
\* how many of the packages of pkgs the model installs
NumPkgs == 2

\* the first names of pkgs
pkgs == <<"bzip2-libs", "cjkuni-fonts-common", "cjkuni-ukai-fonts",
          "cjkuni-uming-fonts">>

\* the package managers looked for, "" when none is found
PkgManagerNames == {"", "yum", "zypper", "apt-get"}

\* the path searched last; it is the one reported when nothing is found
pkgManagerPath(name) ==
    IF name = "" THEN "/usr/bin/local/apt-get" ELSE "/usr/bin/" \o name

suppressOutputMarkers ==
    <<"No packages marked for update", "Nothing to do",
      "0 upgraded, 0 newly installed", "Unable to locate">>

\* what a package manager may print
ProgramOutputs ==
    {"Complete!\n", "Package already installed.\nNothing to do\n",
     "Nothing to download"}

\* the error of misc.InvokeProgram, formatted with %v
ProgramErrs == {"<nil>", "exit status 1"}

\* the time the NTP servers give
TrueTime == 4000

\* the values of misc.StartupTime and of the system clock at the call
StartupTimes == {1000, 8000}
WallClocks == {TrueTime, 9000}

\* the output contains one of the markers
IsSuppressed(output) ==
    \E i \in 1..Len(suppressOutputMarkers) :
        Contains(output, suppressOutputMarkers[i])

\* the for loop over the markers after the system upgrade
SuppressUpgradeOutput(output) ==
    IF IsSuppressed(output) THEN "skipped" ELSE output

\* the for loop over the markers after the installation of one package
SuppressInstallOutput(output) ==
    IF IsSuppressed(output) THEN "Nothing to do" ELSE output

\* the variables SystemMaintenance does not touch
notMaintVars ==
    <<loopVars, execVars, hostsVars, blacklistVars, fsVars, testVars,
      moreVars>>

\* the search for a package manager, and the first two lines of the report
MaintFindPackageManager ==
    /\ mpc = "called"
    /\ \E name \in PkgManagerNames :
          /\ pkgManagerName' = name
          /\ maintRet' = <<"--- Conducting system maintenance...\n",
                           "--- Package manage is \"" \o pkgManagerPath(name)
                               \o "\"\n">>
          /\ mpc' = IF name = "apt-get" THEN "aptUpdate" ELSE "params"
    /\ UNCHANGED <<pkgIndex, lastRun, StartupTime, wallClock, notMaintVars>>

\* apt-get update; its output is not suppressed
MaintAptUpdate ==
    /\ mpc = "aptUpdate"
    /\ \E err \in ProgramErrs :
          /\ lastRun' = [prog |-> "update", result |-> "Reading package lists...\n",
                         err |-> err]
          /\ maintRet' = maintRet \o
                <<"--- Updating apt manifests...\n",
                  "--- apt-get result: " \o err \o " - "
                      \o TrimSpace(lastRun'.result) \o "\n\n">>
    /\ mpc' = "params"
    /\ UNCHANGED <<pkgManagerName, pkgIndex, StartupTime, wallClock,
                   notMaintVars>>

\* the switch over the package manager's name
MaintParams ==
    /\ mpc = "params"
    /\ maintRet' =
          IF pkgManagerName \in {"yum", "apt-get", "zypper"}
            THEN maintRet
            ELSE Append(maintRet,
                   "--- Will not install system software: missing implementation for package manager "
                       \o pkgManagerName \o "\n")
    /\ mpc' = IF pkgManagerName # "" THEN "upgrade" ELSE "ntpdate"
    /\ UNCHANGED <<pkgManagerName, pkgIndex, lastRun, StartupTime, wallClock,
                   notMaintVars>>

\* the upgrade of the system's packages
MaintUpgrade ==
    /\ mpc = "upgrade"
    /\ \E out \in ProgramOutputs, err \in ProgramErrs :
          /\ lastRun' = [prog |-> "upgrade", result |-> out, err |-> err]
          /\ maintRet' = maintRet \o
                <<"--- Upgrading system packages...\n",
                  "--- System upgrade result: " \o err \o " - "
                      \o TrimSpace(SuppressUpgradeOutput(out)) \o "\n\n">>
    /\ pkgIndex' = 0
    /\ mpc' = "install"
    /\ UNCHANGED <<pkgManagerName, StartupTime, wallClock, notMaintVars>>

\* faulty variant of MaintInstall: the output is reduced like the upgrade's
MaintInstallSkipped ==
    /\ mpc = "install"
    /\ \E out \in ProgramOutputs, err \in ProgramErrs :
          /\ lastRun' = [prog |-> "install", result |-> out, err |-> err]
          /\ maintRet' = maintRet \o
                <<"--- Installing/upgrading " \o pkgs[pkgIndex + 1] \o "\n",
                  "--- " \o pkgs[pkgIndex + 1] \o " installation/upgrade result: "
                      \o err \o " - "
                      \o TrimSpace(SuppressUpgradeOutput(out)) \o "\n\n">>
    /\ pkgIndex' = pkgIndex + 1
    /\ mpc' = IF pkgIndex' = NumPkgs THEN "ntpdate" ELSE "install"
    /\ UNCHANGED <<pkgManagerName, StartupTime, wallClock, notMaintVars>>

\* one iteration of the loop over pkgs
MaintInstall ==
    /\ mpc = "install"
    /\ \E out \in ProgramOutputs, err \in ProgramErrs :
          /\ lastRun' = [prog |-> "install", result |-> out, err |-> err]
          /\ maintRet' = maintRet \o
                <<"--- Installing/upgrading " \o pkgs[pkgIndex + 1] \o "\n",
                  "--- " \o pkgs[pkgIndex + 1] \o " installation/upgrade result: "
                      \o err \o " - "
                      \o TrimSpace(SuppressInstallOutput(out)) \o "\n\n">>
    /\ pkgIndex' = pkgIndex + 1
    /\ mpc' = IF pkgIndex' = NumPkgs THEN "ntpdate" ELSE "install"
    /\ UNCHANGED <<pkgManagerName, StartupTime, wallClock, notMaintVars>>

\* the three tools that set the system clock, in the order of their use
SyncTools == <<"ntpdate", "chronyd", "busybox">>

\* one of the three clock synchronisations: a tool that succeeds sets the
\* system clock, one that fails leaves it
MaintClockSync(i) ==
    /\ mpc = SyncTools[i]
    /\ \E err \in ProgramErrs :
          /\ lastRun' = [prog |-> SyncTools[i], result |-> "", err |-> err]
          /\ wallClock' = IF err = "<nil>" THEN TrueTime ELSE wallClock
          /\ maintRet' = Append(maintRet,
                "--- clock synchronisation result (" \o SyncTools[i] \o "): "
                    \o err \o " - " \o TrimSpace(lastRun'.result) \o "\n\n")
    /\ mpc' = IF i < Len(SyncTools) THEN SyncTools[i + 1] ELSE "skew"
    /\ UNCHANGED <<pkgManagerName, pkgIndex, StartupTime, notMaintVars>>

\* faulty variant of SkewCorrected: the interval is added
SkewCorrectedForward(startup, clock) ==
    IF startup > clock THEN clock + MinimumIntervalSec ELSE startup

\* misc.StartupTime after the check for a skewed clock
SkewCorrected(startup, clock) ==
    IF startup > clock THEN clock - MinimumIntervalSec ELSE startup

\* if misc.StartupTime.After(time.Now()) { ... }
MaintSkewCheck ==
    /\ mpc = "skew"
    /\ StartupTime' = SkewCorrected(StartupTime, wallClock)
    /\ maintRet' =
          IF StartupTime > wallClock
            THEN Append(maintRet,
                   "--- clock was severely skewed, reset program startup time.\n")
            ELSE maintRet
    /\ mpc' = "finish"
    /\ UNCHANGED <<pkgManagerName, pkgIndex, lastRun, wallClock, notMaintVars>>

\* the last line of the report, and the return
MaintFinish ==
    /\ mpc = "finish"
    /\ maintRet' = Append(maintRet, "--- System maintenance has finished.\n")
    /\ mpc' = "returned"
    /\ UNCHANGED <<pkgManagerName, pkgIndex, lastRun, StartupTime, wallClock,
                   notMaintVars>>

\* SystemMaintenance is called
MaintInit ==
    /\ mpc = "called"
    /\ pkgManagerName = ""
    /\ maintRet = <<>>
    /\ pkgIndex = 0
    /\ lastRun = NoRun
    /\ StartupTime \in StartupTimes
    /\ wallClock \in WallClocks

MaintNext ==
    \/ MaintFindPackageManager
    \/ MaintAptUpdate
    \/ MaintParams
    \/ MaintUpgrade
    \/ MaintInstall
    \/ \E i \in 1..Len(SyncTools) : MaintClockSync(i)
    \/ MaintSkewCheck
    \/ MaintFinish

MaintSpecInit ==
    /\ LoopIdle /\ ExecIdle /\ MaintInit /\ HostsIdle /\ BlacklistIdle
    /\ FsIdle /\ TestIdle /\ MoreIdle

MaintSpec == MaintSpecInit /\ [][MaintNext]_vars

(***************************************************************************)
(* dnsd.ExtractNamesFromHostsContent                                       *)
(***************************************************************************)
\* strings.IndexRune: the index of the first c in s counted from 0, or -1
IndexRune(s, c) ==
    LET hits == {i \in 1..Len(s) : CharAt(s, i) = c}
    IN  IF hits = {} THEN -1 ELSE MinOf(hits) - 1

\* strings.HasSuffix
HasSuffix(s, suffix) ==
    /\ Len(s) >= Len(suffix)
    /\ SubSeq(s, Len(s) - Len(suffix) + 1, Len(s)) = suffix

UpperCase == "ABCDEFGHIJKLMNOPQRSTUVWXYZ"
LowerCase == "abcdefghijklmnopqrstuvwxyz"

\* unicode.ToLower of one character
ToLowerChar(c) ==
    IF \E i \in 1..Len(UpperCase) : CharAt(UpperCase, i) = c
      THEN CharAt(LowerCase, CHOOSE i \in 1..Len(UpperCase) : CharAt(UpperCase, i) = c)
      ELSE c

\* strings.ToLower
RECURSIVE ToLower(_)
ToLower(s) ==
    IF s = "" THEN "" ELSE ToLowerChar(CharAt(s, 1)) \o ToLower(StrFrom(s, 2))

\* strings.Split(s, "\n")
RECURSIVE SplitLines(_)
SplitLines(s) ==
    LET lf == IndexRune(s, "\n")
    IN  IF lf = -1
          THEN <<s>>
          ELSE <<SubSeq(s, 1, lf)>> \o SplitLines(StrFrom(s, lf + 2))

\* the lines of a file joined by line feeds
RECURSIVE JoinLines(_)
JoinLines(ls) ==
    IF ls = <<>> THEN ""
    ELSE IF Len(ls) = 1 THEN ls[1]
    ELSE ls[1] \o "\n" \o JoinLines(Tail(ls))

\* faulty variant of NameOfLine: the name keeps its letters' case
NameOfLineAsWritten(trimmed) ==
    LET space == IndexRune(trimmed, " ")
        rest == TrimSpace(StrFrom(trimmed, space + 1))
        hash == IndexRune(rest, "#")
        nameEnd == IF hash = -1 THEN Len(rest) ELSE hash
    IN  TrimSpace(SubSeq(rest, 1, nameEnd))

\* the body of the loop from "Find the second field" to aName, for a trimmed
\* line that has a space
NameOfLine(trimmed) ==
    LET space == IndexRune(trimmed, " ")
        rest == TrimSpace(StrFrom(trimmed, space + 1))
        hash == IndexRune(rest, "#")
        nameEnd == IF hash = -1 THEN Len(rest) ELSE hash
    IN  ToLower(TrimSpace(SubSeq(rest, 1, nameEnd)))

\* what one line of the content appends to ret
NamesOfLine(rawLine) ==
    LET line == TrimSpace(rawLine)
    IN  IF Len(line) = 0 \/ CharAt(line, 1) = "#"
          THEN <<>>
        ELSE IF IndexRune(line, " ") = -1
          THEN <<>>
        ELSE LET aName == NameOfLine(line)
             IN  IF \/ aName = ""
                    \/ HasSuffix(aName, "localhost")
                    \/ HasSuffix(aName, "localdomain")
                    \/ Len(aName) < 4
                   THEN <<>>
                   ELSE <<aName>>

\* the loop over the lines
RECURSIVE NamesOfLines(_)
NamesOfLines(ls) ==
    IF ls = <<>> THEN <<>> ELSE NamesOfLine(ls[1]) \o NamesOfLines(Tail(ls))

ExtractNamesFromHostsContent(c) == NamesOfLines(SplitLines(c))

\* how many lines a hosts file of the model has at most
MaxLines == 2

\* the lines a hosts file of the model is written from
HostsLineSet ==
    {"", "# ad servers", "0.0.0.0 ads.example.com", "0.0.0.0\tads.example.com",
     "ads.example.com", "0.0.0.0 \t Ads.Example.COM # tracker",
     "127.0.0.1 localhost", "127.0.0.1 my.localdomain", "0.0.0.0 a.b",
     "  0.0.0.0 www.example.org\r", "0.0.0.0 #none",
     "0.0.0.0 ads.example.com www.example.com"}

\* the variables ExtractNamesFromHostsContent does not touch
notHostsVars ==
    <<loopVars, execVars, maintVars, blacklistVars, fsVars, testVars,
      moreVars>>

\* ExtractNamesFromHostsContent is called with the content of a hosts file
HostsInit ==
    /\ hpc = "called"
    /\ hostsLines \in UNION {[1..n -> HostsLineSet] : n \in 0..MaxLines}
    /\ content = JoinLines(hostsLines)
    /\ names = <<>>

\* the call, from its first statement to its return
HostsExtract ==
    /\ hpc = "called"
    /\ names' = ExtractNamesFromHostsContent(content)
    /\ hpc' = "returned"
    /\ UNCHANGED <<hostsLines, content, notHostsVars>>

HostsNext == HostsExtract

HostsSpecInit ==
    /\ LoopIdle /\ ExecIdle /\ MaintIdle /\ HostsInit /\ BlacklistIdle
    /\ FsIdle /\ TestIdle /\ MoreIdle

HostsSpec == HostsSpecInit /\ [][HostsNext]_vars

(***************************************************************************)
(* dnsd.DownloadAllBlacklists                                              *)
(***************************************************************************)
HostsFileURLs ==
    <<"http://winhelp2002.mvps.org/hosts.txt",
      "http://pgl.yoyo.org/adservers/serverlist.php?hostformat=hosts&showintro=0&mimetype=plaintext",
      "http://www.malwaredomainlist.com/hostslist/hosts.txt",
      "http://someonewhocares.org/hosts/hosts">>

NumURLs == Len(HostsFileURLs)

\* no response yet
NoResp == [err |-> "", body |-> ""]

\* what inet.DoHTTP may give: a failure has an empty body, a success the
\* hosts file the server publishes
Responses ==
    { [err |-> "timeout", body |-> ""],
      [err |-> "<nil>",
       body |-> "# ads\n0.0.0.0 ads.example.com\n0.0.0.0 Track.Example.org # t\n"],
      [err |-> "<nil>",
       body |-> "127.0.0.1 localhost\n0.0.0.0 ads.example.com\n0.0.0.0 bad.example.net"] }

\* all arrays one after the other
RECURSIVE Flatten(_)
Flatten(arrays) ==
    IF arrays = <<>> THEN <<>> ELSE arrays[1] \o Flatten(Tail(arrays))

\* faulty variant of UniqueStrings: repeated strings are kept
AllStrings(arrays) == {Flatten(arrays)}

\* UniqueStrings: the keys of the map m in any order, each once
UniqueStrings(arrays) ==
    LET m == UNION {Range(arrays[i]) : i \in 1..Len(arrays)}
    IN  {f \in [1..Cardinality(m) -> m] :
            \A a, b \in 1..Cardinality(m) : a # b => f[a] # f[b]}

\* the variables DownloadAllBlacklists does not touch
notBlacklistVars ==
    <<loopVars, execVars, maintVars, hostsVars, fsVars, testVars,
      moreVars>>

\* wg.Add(len(HostsFileURLs)); lists := make([][]string, len(HostsFileURLs))
BlAdd ==
    /\ bpc = "called"
    /\ wg' = NumURLs
    /\ lists' = [i \in 1..NumURLs |-> <<>>]
    /\ bpc' = "spawn"
    /\ UNCHANGED <<spawnedURLs, dpc, resp, blacklist, notBlacklistVars>>

\* one go statement of the loop over the URLs
BlSpawn ==
    /\ bpc = "spawn"
    /\ spawnedURLs < NumURLs
    /\ spawnedURLs' = spawnedURLs + 1
    /\ dpc' = [dpc EXCEPT ![spawnedURLs'] = "started"]
    /\ bpc' = IF spawnedURLs' = NumURLs THEN "wait" ELSE "spawn"
    /\ UNCHANGED <<wg, resp, lists, blacklist, notBlacklistVars>>

\* goroutine i: resp, err := inet.DoHTTP(...)
BlDoHTTP(i) ==
    /\ dpc[i] = "started"
    /\ \E r \in Responses : resp' = [resp EXCEPT ![i] = r]
    /\ dpc' = [dpc EXCEPT ![i] = "downloaded"]
    /\ UNCHANGED <<bpc, wg, spawnedURLs, lists, blacklist, notBlacklistVars>>

\* goroutine i: lists[i] = ExtractNamesFromHostsContent(string(resp.Body))
BlAssign(i) ==
    /\ dpc[i] = "downloaded"
    /\ lists' = [lists EXCEPT ![i] = ExtractNamesFromHostsContent(resp[i].body)]
    /\ dpc' = [dpc EXCEPT ![i] = "assigned"]
    /\ UNCHANGED <<bpc, wg, spawnedURLs, resp, blacklist, notBlacklistVars>>

\* goroutine i returns: the deferred wg.Done()
BlDone(i) ==
    /\ dpc[i] = "assigned"
    /\ wg' = wg - 1
    /\ dpc' = [dpc EXCEPT ![i] = "done"]
    /\ UNCHANGED <<bpc, spawnedURLs, resp, lists, blacklist, notBlacklistVars>>

\* wg.Wait() returns; ret := UniqueStrings(lists...); return ret
BlWaitAndReturn ==
    /\ bpc = "wait"
    /\ wg = 0
    /\ blacklist' \in UniqueStrings(lists)
    /\ bpc' = "returned"
    /\ UNCHANGED <<wg, spawnedURLs, dpc, resp, lists, notBlacklistVars>>

\* DownloadAllBlacklists is called
BlacklistInit ==
    /\ bpc = "called"
    /\ wg = 0
    /\ spawnedURLs = 0
    /\ dpc = [i \in 1..NumURLs |-> "notStarted"]
    /\ resp = [i \in 1..NumURLs |-> NoResp]
    /\ lists = <<>>
    /\ blacklist = <<>>

BlacklistNext ==
    \/ BlAdd
    \/ BlSpawn
    \/ \E i \in 1..NumURLs : BlDoHTTP(i) \/ BlAssign(i) \/ BlDone(i)
    \/ BlWaitAndReturn

BlacklistSpecInit ==
    /\ LoopIdle /\ ExecIdle /\ MaintIdle /\ HostsIdle /\ BlacklistInit
    /\ FsIdle /\ TestIdle /\ MoreIdle

BlacklistSpec == BlacklistSpecInit /\ [][BlacklistNext]_vars

(***************************************************************************)
(* feature.FeatureSet                                                      *)
(***************************************************************************)
\* the features of a FeatureSet
Features ==
    {"Facebook", "Shell", "Twilio", "Twitter", "WolframAlpha", "Undocumented1"}

\* faulty variant of TriggerOf: Undocumented1 reports the trigger of the shell
TriggerOfShared(f) ==
    CASE f = "Facebook" -> ".f"
      [] f = "Shell" -> ".s"
      [] f = "Twilio" -> ".p"
      [] f = "Twitter" -> ".t"
      [] f = "WolframAlpha" -> ".w"
      [] f = "Undocumented1" -> ".s"

\* Feature.Trigger(): every feature has a trigger of its own
TriggerOf(f) ==
    CASE f = "Facebook" -> ".f"
      [] f = "Shell" -> ".s"
      [] f = "Twilio" -> ".p"
      [] f = "Twitter" -> ".t"
      [] f = "WolframAlpha" -> ".w"
      [] f = "Undocumented1" -> ".c"

\* the features in the order of the map literal of Initialise
FeatureOrder ==
    <<"Facebook", "Shell", "Twilio", "Twitter", "WolframAlpha", "Undocumented1">>

\* prefixes := map[Trigger]Feature{...}: of two entries with one key the
\* later one stays
Prefixes ==
    [t \in {TriggerOf(f) : f \in Features} |->
        FeatureOrder[MaxOf({i \in 1..Len(FeatureOrder) :
                               TriggerOf(FeatureOrder[i]) = t})]]

\* the features the loop over prefixes meets
PrefixFeatures == {Prefixes[t] : t \in DOMAIN Prefixes}

\* faulty variant of MapPut: the map holds the new entry only
MapOfOne(m, k, v) == [x \in {k} |-> v]

\* m[k] = v
MapPut(m, k, v) == [x \in DOMAIN m \cup {k} |-> IF x = k THEN v ELSE m[x]]

\* the variables FeatureSet.Initialise does not touch
notFsVars ==
    <<loopVars, execVars, maintVars, hostsVars, blacklistVars, testVars,
      moreVars>>

\* fs.LookupByPrefix = map[Trigger]Feature{}; prefixes := ...
FsStart ==
    /\ fpc = "called"
    /\ LookupByPrefix' = EmptyMap
    /\ fpc' = "range"
    /\ UNCHANGED <<isConfigured, initFails, ranged, initialised, fsErr,
                   notFsVars>>

\* faulty variant of FsRange: the feature is stored before it is initialised
FsRangeStoresFirst(f) ==
    /\ fpc = "range"
    /\ f \in PrefixFeatures \ ranged
    /\ ranged' = ranged \cup {f}
    /\ IF f \in isConfigured
         THEN /\ initialised' = initialised \cup {f}
              /\ LookupByPrefix' = MapPut(LookupByPrefix, TriggerOf(f), f)
              /\ IF f \in initFails
                   THEN fsErr' = f /\ fpc' = "returned"
                   ELSE UNCHANGED <<fsErr, fpc>>
         ELSE UNCHANGED <<initialised, LookupByPrefix, fsErr, fpc>>
    /\ UNCHANGED <<isConfigured, initFails, notFsVars>>

\* faulty variant of FsRange: IsConfigured() is not asked
FsRangeAll(f) ==
    /\ fpc = "range"
    /\ f \in PrefixFeatures \ ranged
    /\ ranged' = ranged \cup {f}
    /\ initialised' = initialised \cup {f}
    /\ IF f \in initFails
         THEN /\ fsErr' = f
              /\ fpc' = "returned"
              /\ UNCHANGED LookupByPrefix
         ELSE /\ LookupByPrefix' = MapPut(LookupByPrefix, TriggerOf(f), f)
              /\ UNCHANGED <<fsErr, fpc>>
    /\ UNCHANGED <<isConfigured, initFails, notFsVars>>

\* one iteration of the loop over prefixes, whose order is the map's
FsRange(f) ==
    /\ fpc = "range"
    /\ f \in PrefixFeatures \ ranged
    /\ ranged' = ranged \cup {f}
    /\ IF f \in isConfigured
         THEN /\ initialised' = initialised \cup {f}
              /\ IF f \in initFails
                   THEN /\ fsErr' = f
                        /\ fpc' = "returned"
                        /\ UNCHANGED LookupByPrefix
                   ELSE /\ LookupByPrefix' =
                              MapPut(LookupByPrefix, TriggerOf(f), f)
                        /\ UNCHANGED <<fsErr, fpc>>
         ELSE UNCHANGED <<initialised, LookupByPrefix, fsErr, fpc>>
    /\ UNCHANGED <<isConfigured, initFails, notFsVars>>

\* the loop is over: return nil
FsReturnNil ==
    /\ fpc = "range"
    /\ ranged = PrefixFeatures
    /\ fsErr' = "<nil>"
    /\ fpc' = "returned"
    /\ UNCHANGED <<isConfigured, initFails, ranged, initialised, LookupByPrefix,
                   notFsVars>>

\* FeatureSet.Initialise is called on a deserialised feature set
FsInit ==
    /\ fpc = "called"
    /\ isConfigured \in SUBSET Features
    /\ initFails \in SUBSET Features
    /\ ranged = {}
    /\ initialised = {}
    /\ LookupByPrefix = EmptyMap
    /\ fsErr = ""

FsNext ==
    \/ FsStart
    \/ \E f \in Features : FsRange(f)
    \/ FsReturnNil

FsSpecInit ==
    /\ LoopIdle /\ ExecIdle /\ MaintIdle /\ HostsIdle /\ BlacklistIdle
    /\ FsInit /\ TestIdle /\ MoreIdle

FsSpec == FsSpecInit /\ [][FsNext]_vars

\* how many features the lookup table holds at most when SelfTest is called
MaxTested == 3

\* the error of a feature's SelfTest
SelfTestErrOf(f) == "broken " \o f

\* the variables FeatureSet.SelfTest does not touch
notTestVars ==
    <<loopVars, execVars, maintVars, hostsVars, blacklistVars, fsVars,
      moreVars>>

\* ret = make(map[Trigger]error); wait.Add(len(fs.LookupByPrefix))
TestAdd ==
    /\ tpc = "called"
    /\ selfTestRet' = EmptyMap
    /\ wait' = Cardinality(tested)
    /\ tpc' = "spawn"
    /\ UNCHANGED <<tested, gpc, testErr, retMutex, notTestVars>>

\* one go statement of the loop over fs.LookupByPrefix, in the map's order
TestSpawn(f) ==
    /\ tpc = "spawn"
    /\ gpc[f] = "notStarted"
    /\ gpc' = [gpc EXCEPT ![f] = "started"]
    /\ UNCHANGED <<tpc, tested, wait, testErr, retMutex, selfTestRet,
                   notTestVars>>

\* the loop over fs.LookupByPrefix is over
TestSpawnEnd ==
    /\ tpc = "spawn"
    /\ \A f \in tested : gpc[f] # "notStarted"
    /\ tpc' = "wait"
    /\ UNCHANGED <<tested, wait, gpc, testErr, retMutex, selfTestRet,
                   notTestVars>>

\* goroutine of f: err := ref.SelfTest()
GoSelfTest(f) ==
    /\ gpc[f] = "started"
    /\ \E err \in {"<nil>", SelfTestErrOf(f)} :
          /\ testErr' = [testErr EXCEPT ![f] = err]
          /\ gpc' = [gpc EXCEPT ![f] = IF err = "<nil>" THEN "tested" ELSE "failed"]
    /\ UNCHANGED <<tpc, tested, wait, retMutex, selfTestRet, notTestVars>>

\* goroutine of f: retMutex.Lock()
GoLock(f) ==
    /\ gpc[f] = "failed"
    /\ retMutex = ""
    /\ retMutex' = f
    /\ gpc' = [gpc EXCEPT ![f] = "locked"]
    /\ UNCHANGED <<tpc, tested, wait, testErr, selfTestRet, notTestVars>>

\* goroutine of f: ret[ref.Trigger()] = err
GoWrite(f) ==
    /\ gpc[f] = "locked"
    /\ selfTestRet' = MapPut(selfTestRet, TriggerOf(f), testErr[f])
    /\ gpc' = [gpc EXCEPT ![f] = "written"]
    /\ UNCHANGED <<tpc, tested, wait, testErr, retMutex, notTestVars>>

\* goroutine of f: retMutex.Unlock()
GoUnlock(f) ==
    /\ gpc[f] = "written"
    /\ retMutex' = ""
    /\ gpc' = [gpc EXCEPT ![f] = "tested"]
    /\ UNCHANGED <<tpc, tested, wait, testErr, selfTestRet, notTestVars>>

\* goroutine of f: wait.Done()
GoDone(f) ==
    /\ gpc[f] = "tested"
    /\ wait' = wait - 1
    /\ gpc' = [gpc EXCEPT ![f] = "done"]
    /\ UNCHANGED <<tpc, tested, testErr, retMutex, selfTestRet, notTestVars>>

\* wait.Wait() returns; return
TestWaitAndReturn ==
    /\ tpc = "wait"
    /\ wait = 0
    /\ tpc' = "returned"
    /\ UNCHANGED <<tested, wait, gpc, testErr, retMutex, selfTestRet,
                   notTestVars>>

\* FeatureSet.SelfTest is called on an initialised feature set
TestInit ==
    /\ tpc = "called"
    /\ tested \in {T \in SUBSET Features : Cardinality(T) <= MaxTested}
    /\ wait = 0
    /\ gpc = [f \in tested |-> "notStarted"]
    /\ testErr = [f \in tested |-> ""]
    /\ retMutex = ""
    /\ selfTestRet = EmptyMap

TestNext ==
    \/ TestAdd
    \/ TestSpawnEnd
    \/ \E f \in tested :
          \/ TestSpawn(f)
          \/ GoSelfTest(f)
          \/ GoLock(f)
          \/ GoWrite(f)
          \/ GoUnlock(f)
          \/ GoDone(f)
    \/ TestWaitAndReturn

TestSpecInit ==
    /\ LoopIdle /\ ExecIdle /\ MaintIdle /\ HostsIdle /\ BlacklistIdle
    /\ FsIdle /\ TestInit /\ MoreIdle

TestSpec == TestSpecInit /\ [][TestNext]_vars

(***************************************************************************)
(* launcher.Benchmark: reportRatePerSecond and a benchmark loop            *)
(***************************************************************************)
\* how many times the loop calls trigger at most
MaxCalls == 3

\* the groups of variables of the maintenance, dnsd and feature packages
baseVars ==
    <<loopVars, execVars, maintVars, hostsVars, blacklistVars, fsVars,
      testVars>>

\* nothing of the maintenance, dnsd and feature packages has been called
BaseIdle ==
    /\ LoopIdle /\ ExecIdle /\ MaintIdle /\ HostsIdle /\ BlacklistIdle
    /\ FsIdle /\ TestIdle

\* the variables a benchmark does not touch
notBenchVars == <<baseVars, limiterVars, lintVars, pinVars>>

\* the caller of the benchmark sets bench.Stop, and leaves it set
SetStop ==
    /\ lpc # "idle"
    /\ ~benchStop
    /\ benchStop' = TRUE
    /\ UNCHANGED <<lpc, rpc, counter, total, tickPending, localCounter,
                   lastLog, sinceReport, requests, afterStop, notBenchVars>>

\* the loop: if bench.Stop { return }
LoopTopCheck ==
    /\ lpc = "top"
    /\ benchStop \/ total < MaxCalls
    /\ lpc' = IF benchStop THEN "returned" ELSE "addCounter"
    /\ UNCHANGED <<benchStop, rpc, counter, total, tickPending, localCounter,
                   lastLog, sinceReport, requests, afterStop, notBenchVars>>

\* trigger(): atomic.AddInt64(&counter, 1)
LoopAddCounter ==
    /\ lpc = "addCounter"
    /\ counter' = counter + 1
    /\ sinceReport' = sinceReport + 1
    /\ lpc' = "addTotal"
    /\ UNCHANGED <<benchStop, rpc, total, tickPending, localCounter, lastLog,
                   requests, afterStop, notBenchVars>>

\* trigger(): atomic.AddInt64(&total, 1)
LoopAddTotal ==
    /\ lpc = "addTotal"
    /\ total' = total + 1
    /\ lpc' = "send"
    /\ UNCHANGED <<benchStop, rpc, counter, tickPending, localCounter, lastLog,
                   sinceReport, requests, afterStop, notBenchVars>>

\* the loop sends its request, or gives it up on an error, and continues
LoopSend ==
    /\ lpc = "send"
    /\ requests' = requests + 1
    /\ afterStop' = IF benchStop
                      THEN [afterStop EXCEPT !.requests = @ + 1]
                      ELSE afterStop
    /\ lpc' = "top"
    /\ UNCHANGED <<benchStop, rpc, counter, total, tickPending, localCounter,
                   lastLog, sinceReport, notBenchVars>>

\* rand.Read fails: the loop returns
LoopRandFails ==
    /\ lpc = "send"
    /\ lpc' = "returned"
    /\ UNCHANGED <<benchStop, rpc, counter, total, tickPending, localCounter,
                   lastLog, sinceReport, requests, afterStop, notBenchVars>>

\* the ticker sends a tick; ticker.C holds one tick at most
Tick1s ==
    /\ rpc \notin {"idle", "returned"}
    /\ ~tickPending
    /\ tickPending' = TRUE
    /\ UNCHANGED <<benchStop, lpc, rpc, counter, total, localCounter, lastLog,
                   sinceReport, requests, afterStop, notBenchVars>>

\* faulty variant of RepTopCheck: bench.Stop is not looked at
RepTopCheckNever ==
    /\ rpc = "top"
    /\ rpc' = "recv"
    /\ UNCHANGED <<benchStop, lpc, counter, total, tickPending, localCounter,
                   lastLog, sinceReport, requests, afterStop, notBenchVars>>

\* the reporter: if bench.Stop { return }
RepTopCheck ==
    /\ rpc = "top"
    /\ rpc' = IF benchStop THEN "returned" ELSE "recv"
    /\ UNCHANGED <<benchStop, lpc, counter, total, tickPending, localCounter,
                   lastLog, sinceReport, requests, afterStop, notBenchVars>>

\* the reporter: <-ticker.C
RepRecv ==
    /\ rpc = "recv"
    /\ tickPending
    /\ tickPending' = FALSE
    /\ afterStop' = IF benchStop
                      THEN [afterStop EXCEPT !.ticks = @ + 1]
                      ELSE afterStop
    /\ rpc' = "load"
    /\ UNCHANGED <<benchStop, lpc, counter, total, localCounter, lastLog,
                   sinceReport, requests, notBenchVars>>

\* the reporter: counter := atomic.LoadInt64(&counter), which declares a
\* counter of the loop's body
RepLoad ==
    /\ rpc = "load"
    /\ localCounter' = counter
    /\ lastLog' = [NoLog EXCEPT !.calls = sinceReport]
    /\ sinceReport' = 0
    /\ rpc' = "log"
    /\ UNCHANGED <<benchStop, lpc, counter, total, tickPending, requests,
                   afterStop, notBenchVars>>

\* the reporter: logger.Info(..., atomic.SwapInt64(&counter, 0)/1, counter),
\* both on the counter of the loop's body; the second argument is read
\* before or after the swap
RepLog ==
    /\ rpc = "log"
    /\ \E second \in {localCounter, 0} :
          lastLog' = [lastLog EXCEPT !.rate = localCounter,
                                     !.total = second,
                                     !.sum = total]
    /\ localCounter' = 0
    /\ rpc' = "top"
    /\ UNCHANGED <<benchStop, lpc, counter, total, tickPending, sinceReport,
                   requests, afterStop, notBenchVars>>

\* reportRatePerSecond has started its goroutine and called the loop
BenchInit ==
    /\ benchStop = FALSE
    /\ lpc = "top"
    /\ rpc = "top"
    /\ counter = 0
    /\ total = 0
    /\ tickPending = FALSE
    /\ localCounter = 0
    /\ lastLog = NoLog
    /\ sinceReport = 0
    /\ requests = 0
    /\ afterStop = NothingAfterStop

\* the steps of the benchmark loop
LoopStep ==
    LoopTopCheck \/ LoopAddCounter \/ LoopAddTotal \/ LoopSend \/ LoopRandFails

\* the steps of the reporter
ReporterStep == RepTopCheck \/ RepRecv \/ RepLoad \/ RepLog

BenchNext == SetStop \/ Tick1s \/ LoopStep \/ ReporterStep

BenchSpecInit == BaseIdle /\ BenchInit /\ LimiterIdle /\ LintIdle /\ PinIdle

\* a goroutine that can run does run, and the ticker goes on ticking
BenchSpec ==
    /\ BenchSpecInit
    /\ [][BenchNext]_vars
    /\ WF_vars(LoopTopCheck \/ LoopAddCounter \/ LoopAddTotal \/ LoopSend)
    /\ WF_vars(ReporterStep)
    /\ WF_vars(Tick1s)

(***************************************************************************)
(* The rate limiter: Register for one client key                           *)
(***************************************************************************)
\* the ticks of the wall clock in one second
TicksPerSec == 2
\* the last tick of the wall clock
MaxLimTick == 3

\* the wall-clock second a tick lies in
SecOf(tick) == tick \div TicksPerSec

notLimiterVars == <<baseVars, benchVars, lintVars, pinVars>>

\* faulty variant of LimArrive: a caller rejected for contention uses up a token
LimArriveContendedTakesToken(i) ==
    /\ reqPc[i] = "idle"
    /\ arrivedAt' = [arrivedAt EXCEPT ![i] = limNow]
    /\ IF bucketLock = 0
         THEN /\ bucketLock' = i
              /\ reqPc' = [reqPc EXCEPT ![i] = "locked"]
              /\ UNCHANGED <<decidedAt, tokens>>
         ELSE /\ reqPc' = [reqPc EXCEPT ![i] = "contended"]
              /\ decidedAt' = [decidedAt EXCEPT ![i] = limNow]
              /\ tokens' = MaxOf({tokens - 1, 0})
              /\ UNCHANGED bucketLock
    /\ UNCHANGED <<limNow, lastRefillSec, notLimiterVars>>

\* a request calls Register: it takes the bucket's lock if the lock is free,
\* and is rejected at once if the lock is held
LimArrive(i) ==
    /\ reqPc[i] = "idle"
    /\ arrivedAt' = [arrivedAt EXCEPT ![i] = limNow]
    /\ IF bucketLock = 0
         THEN /\ bucketLock' = i
              /\ reqPc' = [reqPc EXCEPT ![i] = "locked"]
              /\ UNCHANGED decidedAt
         ELSE /\ reqPc' = [reqPc EXCEPT ![i] = "contended"]
              /\ decidedAt' = [decidedAt EXCEPT ![i] = limNow]
              /\ UNCHANGED bucketLock
    /\ UNCHANGED <<limNow, tokens, lastRefillSec, notLimiterVars>>

\* the tokens of the bucket at the current tick: the bucket is filled up to
\* its capacity when a new wall-clock second has begun
Refilled == IF SecOf(limNow) > lastRefillSec THEN Capacity ELSE tokens

\* faulty variant of LimDecide: an admission takes no token
LimDecideKeepsToken(i) ==
    /\ reqPc[i] = "locked"
    /\ lastRefillSec' = SecOf(limNow)
    /\ tokens' = Refilled
    /\ reqPc' = [reqPc EXCEPT ![i] = IF Refilled > 0 THEN "admitted"
                                                       ELSE "dropped"]
    /\ decidedAt' = [decidedAt EXCEPT ![i] = limNow]
    /\ bucketLock' = 0
    /\ UNCHANGED <<limNow, arrivedAt, notLimiterVars>>

\* Register, holding the lock: refill, take a token if there is one, unlock
LimDecide(i) ==
    /\ reqPc[i] = "locked"
    /\ lastRefillSec' = SecOf(limNow)
    /\ tokens' = IF Refilled > 0 THEN Refilled - 1 ELSE 0
    /\ reqPc' = [reqPc EXCEPT ![i] = IF Refilled > 0 THEN "admitted"
                                                       ELSE "dropped"]
    /\ decidedAt' = [decidedAt EXCEPT ![i] = limNow]
    /\ bucketLock' = 0
    /\ UNCHANGED <<limNow, arrivedAt, notLimiterVars>>

\* the wall clock advances
LimClock ==
    /\ limNow < MaxLimTick
    /\ limNow' = limNow + 1
    /\ UNCHANGED <<tokens, lastRefillSec, bucketLock, reqPc, arrivedAt,
                   decidedAt, notLimiterVars>>

\* a fresh full bucket, no request yet
LimiterInit == LimiterIdle

LimiterNext ==
    \/ LimClock
    \/ \E i \in Requests : LimArrive(i)
    \/ \E i \in Requests : LimDecide(i)

LimiterSpecInit == BaseIdle /\ BenchIdle /\ LimiterInit /\ LintIdle /\ PinIdle

LimiterSpec == LimiterSpecInit /\ [][LimiterNext]_vars

(***************************************************************************)
(* LintText.Lint, on texts as sequences of bytes                           *)
(***************************************************************************)
\* the white-space bytes: tab, line feed, vertical tab, form feed, carriage
\* return, space
SpaceBytes == {9, 10, 11, 12, 13, 32}
\* the bytes that separate lines
LineBytes == {10, 13}
\* the printable 7-bit bytes
PrintableBytes == 32..126

\* stage 1: trim outer white space
LintTrim(s) ==
    LET solid == {i \in 1..Len(s) : s[i] \notin SpaceBytes}
    IN  IF solid = {} THEN <<>> ELSE SubSeq(s, MinOf(solid), MaxOf(solid))

\* every maximal run of bytes of the set seps replaced by one space
RECURSIVE ReplaceRuns(_, _)
ReplaceRuns(s, seps) ==
    IF s = <<>> THEN <<>>
    ELSE IF s[1] \notin seps THEN <<s[1]>> \o ReplaceRuns(Tail(s), seps)
    ELSE LET others == {i \in 1..Len(s) : s[i] \notin seps}
         IN  IF others = {} THEN <<32>>
             ELSE <<32>> \o ReplaceRuns(SubSeq(s, MinOf(others), Len(s)), seps)

\* stage 2: runs of white space become a single space
LintCompressSpaces(s) == ReplaceRuns(s, SpaceBytes)

\* stage 3: bytes outside the printable 7-bit range are dropped
LintKeepVisible(s) == SelectSeq(s, LAMBDA b : b \in PrintableBytes)

\* stage 4: line separators become a single space
LintSingleLine(s) == ReplaceRuns(s, LineBytes)

\* faulty variant of LintCut: one byte more than MaxLength is kept
LintCutLate(s, maxLength) ==
    IF maxLength > 0 /\ Len(s) > maxLength THEN SubSeq(s, 1, maxLength + 1) ELSE s

\* stage 5: the leading MaxLength bytes are kept
LintCut(s, maxLength) ==
    IF maxLength > 0 /\ Len(s) > maxLength THEN SubSeq(s, 1, maxLength) ELSE s

\* the first four stages in their order, each if it is enabled
LintUncut(cfg, s) ==
    LET s1 == IF cfg.TrimSpaces THEN LintTrim(s) ELSE s
        s2 == IF cfg.CompressSpaces THEN LintCompressSpaces(s1) ELSE s1
        s3 == IF cfg.KeepVisible7BitCharOnly THEN LintKeepVisible(s2) ELSE s2
    IN  IF cfg.CompressToSingleLine THEN LintSingleLine(s3) ELSE s3

\* Lint: the five stages in their order, truncation last
Lint(cfg, s) == LintCut(LintUncut(cfg, s), cfg.MaxLength)

\* the longest input text
MaxTextLen == 4
\* the bytes of the input texts: a letter, a space, a line feed, a control
\* byte
LintBytes == {97, 32, 10, 1}
LintInputs == UNION {[1..n -> LintBytes] : n \in 0..MaxTextLen}
\* the values of MaxLength
MaxLengths == {0, 2, 3}
LintCfgs ==
    [TrimSpaces : BOOLEAN, CompressSpaces : BOOLEAN,
     KeepVisible7BitCharOnly : BOOLEAN, CompressToSingleLine : BOOLEAN,
     MaxLength : MaxLengths]

notLintVars == <<baseVars, benchVars, limiterVars, pinVars>>

\* Lint(input)
LintOnce ==
    /\ lintPc = "ready"
    /\ lintOut' = Lint(lintCfg, lintIn)
    /\ lintPc' = "once"
    /\ UNCHANGED <<lintCfg, lintIn, lintTwice, notLintVars>>

\* Lint(Lint(input))
LintAgain ==
    /\ lintPc = "once"
    /\ lintTwice' = Lint(lintCfg, lintOut)
    /\ lintPc' = "twice"
    /\ UNCHANGED <<lintCfg, lintIn, lintOut, notLintVars>>

LintInit ==
    /\ lintPc = "ready"
    /\ lintCfg \in LintCfgs
    /\ lintIn \in LintInputs
    /\ lintOut = <<>>
    /\ lintTwice = <<>>

LintNext == LintOnce \/ LintAgain

LintSpecInit == BaseIdle /\ BenchIdle /\ LimiterIdle /\ LintInit /\ PinIdle

LintSpec == LintSpecInit /\ [][LintNext]_vars

(***************************************************************************)
(* The command pipeline: Invoke with the PINAndShortcuts filter            *)
(***************************************************************************)
\* strings.HasPrefix
HasPrefix(s, prefix) ==
    /\ Len(s) >= Len(prefix)
    /\ SubSeq(s, 1, Len(prefix)) = prefix

\* the positions of the white space of a string
SpacesOf(s) == {i \in 1..Len(s) : IsSpace(CharAt(s, i))}

\* a string without its leading white space
TrimLeft(s) ==
    LET solid == (1..Len(s)) \ SpacesOf(s)
    IN  IF solid = {} THEN "" ELSE StrFrom(s, MinOf(solid))

\* step 3: the first token of a command, delimited by white space
TriggerOfCommand(cmd) ==
    LET c == TrimLeft(cmd)
    IN  IF SpacesOf(c) = {} THEN c ELSE SubSeq(c, 1, MinOf(SpacesOf(c)) - 1)

\* step 3: what follows the first token, without leading white space
ArgumentOfCommand(cmd) ==
    LET c == TrimLeft(cmd)
    IN  IF SpacesOf(c) = {} THEN "" ELSE TrimLeft(StrFrom(c, MinOf(SpacesOf(c))))

\* the triggers of the configured features: the Echo feature
PipelineTriggers == {".secho"}

\* the PINs of the filter
PINs == {"verysecret", "pw"}
\* the shortcuts of the filter
ShortcutMaps == {EmptyMap, [k \in {"httpshortcut"} |-> ".secho httpshortcut"]}
\* the request bodies
Bodies ==
    {"", "wrong .secho hi", "verysecret httpshortcut", "verysecret .secho hello",
     "httpshortcut", " verysecret .secho hi", "verysecret", "verysecret ",
     "verysecret.secho hi", "verysecret  httpshortcut", "verysecret .nosuch x",
     "pw .secho a", "pw httpshortcut", ".secho httpshortcut", "\tpw .secho  a b "}

notPinVars == <<baseVars, benchVars, limiterVars, lintVars>>

\* faulty variant of PinAuthenticate: a body that is a shortcut key passes
PinShortcutBypasses ==
    /\ pinPc = "auth"
    /\ LET body == TrimSpace(pinBody)
       IN  IF body \in DOMAIN pinShortcuts
             THEN pinCmd' = body /\ pinPc' = "expand" /\ UNCHANGED pinRet
           ELSE IF HasPrefix(body, pinPIN)
             THEN /\ pinCmd' = StrFrom(body, Len(pinPIN) + 2)
                  /\ pinPc' = "expand"
                  /\ UNCHANGED pinRet
             ELSE /\ pinRet' = "UnauthorizedPIN"
                  /\ pinPc' = "done"
                  /\ UNCHANGED pinCmd
    /\ UNCHANGED <<pinBody, pinPIN, pinShortcuts, pinRan, notPinVars>>

\* step 1: the PIN is a prefix of the trimmed body, or Invoke fails; the PIN
\* and the character after it are stripped
PinAuthenticate ==
    /\ pinPc = "auth"
    /\ LET body == TrimSpace(pinBody)
       IN  IF HasPrefix(body, pinPIN)
             THEN /\ pinCmd' = StrFrom(body, Len(pinPIN) + 2)
                  /\ pinPc' = "expand"
                  /\ UNCHANGED pinRet
             ELSE /\ pinRet' = "UnauthorizedPIN"
                  /\ pinPc' = "done"
                  /\ UNCHANGED pinCmd
    /\ UNCHANGED <<pinBody, pinPIN, pinShortcuts, pinRan, notPinVars>>

\* step 2: a body that equals a shortcut key becomes the command of the key
PinExpand ==
    /\ pinPc = "expand"
    /\ pinCmd' = IF pinCmd \in DOMAIN pinShortcuts THEN pinShortcuts[pinCmd]
                                                    ELSE pinCmd
    /\ pinPc' = "parse"
    /\ UNCHANGED <<pinBody, pinPIN, pinShortcuts, pinRet, pinRan, notPinVars>>

\* step 3: the trigger is looked up
PinParse ==
    /\ pinPc = "parse"
    /\ IF TriggerOfCommand(pinCmd) = ""
         THEN pinRet' = "EmptyCommand" /\ pinPc' = "done"
       ELSE IF TriggerOfCommand(pinCmd) \notin PipelineTriggers
         THEN pinRet' = "NoSuchFeature" /\ pinPc' = "done"
         ELSE pinPc' = "dispatch" /\ UNCHANGED pinRet
    /\ UNCHANGED <<pinBody, pinPIN, pinShortcuts, pinCmd, pinRan, notPinVars>>

\* steps 6 and 9: the Echo feature is executed and its response returned;
\* the other filters of the chain are absent
PinDispatch ==
    /\ pinPc = "dispatch"
    /\ pinRan' = Append(pinRan, <<TriggerOfCommand(pinCmd),
                                  ArgumentOfCommand(pinCmd)>>)
    /\ pinRet' = ArgumentOfCommand(pinCmd)
    /\ pinPc' = "done"
    /\ UNCHANGED <<pinBody, pinPIN, pinShortcuts, pinCmd, notPinVars>>

\* Invoke is called with a filter and a body
PinInit ==
    /\ pinPc = "auth"
    /\ pinPIN \in PINs
    /\ pinShortcuts \in ShortcutMaps
    /\ pinBody \in Bodies
    /\ pinCmd = ""
    /\ pinRet = ""
    /\ pinRan = <<>>

PinNext == PinAuthenticate \/ PinExpand \/ PinParse \/ PinDispatch

PinSpecInit == BaseIdle /\ BenchIdle /\ LimiterIdle /\ LintIdle /\ PinInit

PinSpec == PinSpecInit /\ [][PinNext]_vars

(***************************************************************************)
(* Daemon.Execute together with the SystemMaintenance it calls             *)
(***************************************************************************)
\* bytes.Buffer.String(): the strings written, one after another
RECURSIVE ConcatAll(_)
ConcatAll(strs) ==
    IF strs = <<>> THEN "" ELSE strs[1] \o ConcatAll(Tail(strs))

\* a step of the SystemMaintenance that Execute has called
ExecMaintStep ==
    /\ epc = "called"
    /\ MaintNext

\* faulty variant of ExecMaintReturn: Execute goes on while the packages are
\* still being installed
ExecMaintReturnsEarly ==
    /\ epc = "called"
    /\ mpc \in {"install", "returned"}
    /\ maintResult' = ConcatAll(maintRet)
    /\ epc' = "add"
    /\ UNCHANGED <<CheckTCPPorts, onCloud, FeaturesToTest, MailCmdRunnerToTest,
                   HTTPHandlersToCheck, waitAllChecks, spawned, branch, checkErr,
                   allOK, result, mailErr, listening, loopVars, restVars>>

\* maintResult := daemon.SystemMaintenance(), once SystemMaintenance returns
ExecMaintReturn ==
    /\ epc = "called"
    /\ mpc = "returned"
    /\ maintResult' = ConcatAll(maintRet)
    /\ epc' = "add"
    /\ UNCHANGED <<CheckTCPPorts, onCloud, FeaturesToTest, MailCmdRunnerToTest,
                   HTTPHandlersToCheck, waitAllChecks, spawned, branch, checkErr,
                   allOK, result, mailErr, listening, loopVars, restVars>>

\* Execute is called on a daemon with HTTP handlers to test
ExecMaintInit ==
    /\ epc = "called"
    /\ CheckTCPPorts = [isNil |-> TRUE, entries |-> {}]
    /\ onCloud = FALSE
    /\ listening = {}
    /\ FeaturesToTest = FALSE
    /\ MailCmdRunnerToTest = FALSE
    /\ HTTPHandlersToCheck = TRUE
    /\ ExecLocalsInit
    /\ MaintInit
    /\ StartupTime = MinOf(StartupTimes)
    /\ wallClock = TrueTime

ExecMaintNext ==
    \/ ExecMaintStep
    \/ ExecMaintReturn
    \/ ExecAdd
    \/ ExecSpawn
    \/ \E b \in Branches : BranchRun(b)
    \/ \E b \in Branches : BranchDone(b)
    \/ ExecWait
    \/ ExecCompose
    \/ ExecMailAndReturn

ExecMaintSpecInit ==
    /\ LoopIdle /\ ExecMaintInit /\ HostsIdle /\ BlacklistIdle /\ FsIdle
    /\ TestIdle /\ MoreIdle

\* one call of Execute, with the steps of its SystemMaintenance
ExecMaintSpec == ExecMaintSpecInit /\ [][ExecMaintNext]_vars

\* the configured destinations with a host name that refuse a connection
RefusingPorts == {d \in CheckTCPPorts.entries : d[1] # "" /\ d \notin listening}

\* the report has a section with this tag
HasTag(tag) == \E i \in 1..Len(result) : result[i].tag = tag

\* C11 as stated: every destination with a non-empty host is knocked, so the
\* error of the port check names every such destination that refuses a
\* connection.
C11_EveryNamedHostIsKnocked ==
    Composed => checkErr["portsErr"].items = RefusingPorts

\* C11: the port check knocks every destination with a non-empty host, except
\* port 25 when running on Google cloud or Azure; its error is non-nil exactly
\* when a knocked destination refuses the connection and names exactly those
\* destinations; the report has "Ports: OK" when none failed, otherwise
\* "Port errors" with the error, and allOK is false.
C11_PortCheckSkipsPort25OnCloud ==
    Composed =>
        LET failed == {d \in RefusingPorts : ~(onCloud /\ d[2] = 25)}
        IN  /\ checkErr["portsErr"].isNil = (failed = {})
            /\ checkErr["portsErr"].items = failed
            /\ failed = {} => HasTag("Ports: OK") /\ ~HasTag("Port errors")
            /\ failed # {} => /\ HasSection("Port errors", ErrOf(failed))
                              /\ ~HasTag("Ports: OK")
                              /\ ~allOK

\* C11 witness: on a cloud machine, the mail port and the local port both
\* refuse connections; the report names the local port only
C11_Witness ==
    /\ epc = "returned"
    /\ onCloud
    /\ {<<"mx", 25>>, <<"localhost", 11334>>} \subseteq RefusingPorts
    /\ HasSection("Port errors", ErrOf({<<"localhost", 11334>>}))
    /\ ~allOK

\* C12: the step that mails the report and returns leaves the report and
\* allOK as they were composed, whether the mail was sent or not.
C12_MailFailureNotFatal ==
    [][epc = "mail" /\ epc' = "returned"
          => /\ result' = result
             /\ allOK' = allOK
             /\ result' = ComposeReport(AllOK(checkErr), checkErr, maintResult)]_vars

\* C12 witness: Execute has returned the report of a run without errors
\* although the mail could not be sent
C12_Witness ==
    /\ epc = "returned"
    /\ mailErr = "error"
    /\ allOK
    /\ HasTag("All OK")

\* the line written last
LastLine == maintRet[Len(maintRet)]

\* C13: the check for a skewed clock sets misc.StartupTime to the system
\* clock minus MinimumIntervalSec when it was later than the system clock and
\* leaves it unchanged otherwise; after the check it is not in the future.
C13_SkewedStartupTimeIsReset ==
    [][mpc = "skew" =>
          /\ StartupTime > wallClock
                => StartupTime' = wallClock - MinimumIntervalSec
          /\ StartupTime <= wallClock => StartupTime' = StartupTime
          /\ StartupTime' <= wallClock']_vars

\* C13 witness: the startup time was taken from a clock in the future, a
\* clock synchronisation has set the clock and the startup time has been reset
C13_Witness ==
    /\ mpc = "finish"
    /\ wallClock = TrueTime
    /\ StartupTime = TrueTime - MinimumIntervalSec
    /\ \E i \in 1..Len(maintRet) :
          maintRet[i] = "--- clock was severely skewed, reset program startup time.\n"

\* C14 as stated: the output of a package's installation that contains one
\* of the markers is reported as "skipped".
C14_InstallOutputIsSkipped ==
    (lastRun.prog = "install" /\ Contains(lastRun.result, "Nothing to do"))
        => LastLine = "--- " \o pkgs[pkgIndex] \o " installation/upgrade result: "
                          \o lastRun.err \o " - skipped\n\n"

\* C14: the output of a package's installation that contains one of the
\* markers is reported as "Nothing to do" (it is the system upgrade whose
\* output is reported as "skipped"); any other output is reported as it is,
\* without the white space around it.
C14_InstallOutputIsNothingToDo ==
    /\ lastRun.prog = "install" =>
          LastLine = "--- " \o pkgs[pkgIndex] \o " installation/upgrade result: "
                         \o lastRun.err \o " - "
                         \o (IF \/ Contains(lastRun.result, "No packages marked for update")
                                \/ Contains(lastRun.result, "Nothing to do")
                                \/ Contains(lastRun.result, "0 upgraded, 0 newly installed")
                                \/ Contains(lastRun.result, "Unable to locate")
                               THEN "Nothing to do"
                               ELSE TrimSpace(lastRun.result))
                         \o "\n\n"
    /\ (lastRun.prog = "upgrade" /\ Contains(lastRun.result, "Nothing to do"))
          => LastLine = "--- System upgrade result: " \o lastRun.err
                            \o " - skipped\n\n"

\* C14 witness: the second package was installed already, and the package
\* manager said so after a line about the package
C14_Witness ==
    /\ lastRun = [prog |-> "install",
                  result |-> "Package already installed.\nNothing to do\n",
                  err |-> "<nil>"]
    /\ pkgIndex = 2
    /\ LastLine = "--- cjkuni-fonts-common installation/upgrade result: <nil> - Nothing to do\n\n"

\* lines of the documented form whose domain passes the length and suffix
\* filter, each with its domain
WellFormedLines ==
    { [line |-> "0.0.0.0 ads.example.com", domain |-> "ads.example.com"],
      [line |-> "0.0.0.0\tads.example.com", domain |-> "ads.example.com"],
      [line |-> "ads.example.com", domain |-> "ads.example.com"],
      [line |-> "0.0.0.0 \t Ads.Example.COM # tracker", domain |-> "ads.example.com"],
      [line |-> "  0.0.0.0 www.example.org\r", domain |-> "www.example.org"] }

\* C17: every line of the form "optional IP token, white space (spaces or
\* tabs), domain, optional # comment" yields its domain; so do a line that
\* holds a domain only and a line whose IP token and domain are separated by
\* a tab.
C17_WellFormedLinesYieldTheirDomain ==
    hpc = "returned" =>
        \A w \in WellFormedLines :
            w.line \in Range(hostsLines) => w.domain \in Range(names)

\* a line is blank or a comment
IsBlankOrComment(l) ==
    \/ \A i \in 1..Len(l) : IsSpace(CharAt(l, i))
    \/ \E i \in 1..Len(l) :
          /\ CharAt(l, i) = "#"
          /\ \A j \in 1..(i - 1) : IsSpace(CharAt(l, j))

\* C18: every name returned is in lower case, has at least four characters,
\* does not end with "localhost" or "localdomain" and holds no '#'; a file of
\* blank lines and comment lines yields no name, and no file yields more
\* names than it has other lines.
C18_ReturnedNamesAreFiltered ==
    hpc = "returned" =>
        /\ \A k \in 1..Len(names) :
              LET n == names[k]
              IN  /\ \A i \in 1..Len(n), j \in 1..Len(UpperCase) :
                        CharAt(n, i) # CharAt(UpperCase, j)
                  /\ Len(n) >= 4
                  /\ ~HasSuffix(n, "localhost")
                  /\ ~HasSuffix(n, "localdomain")
                  /\ \A i \in 1..Len(n) : CharAt(n, i) # "#"
        /\ Len(names) <=
              Cardinality({i \in 1..Len(hostsLines) :
                              ~IsBlankOrComment(hostsLines[i])})

\* C18 witness: a file with a comment line and a line with a name in mixed
\* case, followed by a comment, has yielded the name in lower case
C18_Witness ==
    /\ hpc = "returned"
    /\ hostsLines = <<"# ad servers", "0.0.0.0 \t Ads.Example.COM # tracker">>
    /\ names = <<"ads.example.com">>

\* C15 as stated: when Execute returns, DownloadAllBlacklists has run and
\* the blacklist is the one it returned.
C15_ExecuteRefreshesBlacklist ==
    epc = "returned" => bpc = "returned"

\* C15: Execute never calls DownloadAllBlacklists; from its call to its
\* return no download is started and the blacklist is not replaced.
C15_ExecuteLeavesBlacklistAlone ==
    /\ bpc = "idle"
    /\ spawnedURLs = 0
    /\ blacklist = <<>>

\* C15 witness: Execute has returned its report and no download was started
C15_Witness ==
    /\ epc = "returned"
    /\ result # <<>>
    /\ bpc = "idle"

\* the URLs whose download succeeded
Downloaded == {i \in 1..NumURLs : resp[i].err = "<nil>"}

Reachable == {LookupByPrefix[t] : t \in DOMAIN LookupByPrefix}

Stored == {f \in tested : gpc[f] \in {"written", "tested", "done"}
                            /\ testErr[f] \notin {"", "<nil>"}}

\* C20: SelfTest starts one goroutine per feature of the lookup table and
\* returns only when all of them are done; the map returned has exactly the
\* triggers of the features whose SelfTest failed, each with that feature's
\* error; an entry stored by one goroutine is never lost or overwritten by
\* another.
C20_SelfTestCollectsEveryError ==
    /\ \A f \in Stored :
          /\ TriggerOf(f) \in DOMAIN selfTestRet
          /\ selfTestRet[TriggerOf(f)] = testErr[f]
    /\ (\E f \in tested : gpc[f] # "done") => tpc # "returned"
    /\ tpc = "returned" =>
          /\ DOMAIN selfTestRet =
                {TriggerOf(f) : f \in {g \in tested : testErr[g] # "<nil>"}}
          /\ \A f \in tested : testErr[f] # ""

\* C20 witness: three features were tested, the shell passed, the two others
\* failed and both errors are in the map returned
C20_Witness ==
    /\ tpc = "returned"
    /\ tested = {"Shell", "Twitter", "Facebook"}
    /\ testErr["Shell"] = "<nil>"
    /\ DOMAIN selfTestRet = {".t", ".f"}
    /\ selfTestRet[".t"] = "broken Twitter"
    /\ selfTestRet[".f"] = "broken Facebook"

\* C21: every line logged reports the number of trigger calls since the
\* line before it, and the total of the trigger calls so far.
C21_LogReportsIntervalAndTotal ==
    lastLog.rate # -1 =>
        /\ lastLog.rate = lastLog.calls
        /\ lastLog.total = lastLog.sum

\* C22: once bench.Stop is true the loop leaves its next test of the flag by
\* returning, having sent no more than the request it was in; the reporter
\* receives one more tick at most; in the end both have returned.
C22_StopTerminatesBenchmark ==
    /\ [][(benchStop /\ lpc = "top" /\ lpc' # "top")
             => (lpc' = "returned" /\ requests' = requests)]_vars
    /\ [](afterStop.requests <= 1 /\ afterStop.ticks <= 1)
    /\ (benchStop ~> (lpc = "returned" /\ rpc = "returned"))

\* C22 witness: bench.Stop was set while the loop was in a request and the
\* reporter waited for a tick; both have returned
C22_Witness ==
    /\ benchStop
    /\ lpc = "returned"
    /\ rpc = "returned"
    /\ afterStop = [requests |-> 1, ticks |-> 1]

\* how many requests Register has admitted at the ticks in S
AdmittedIn(S) ==
    Cardinality({i \in Requests : reqPc[i] = "admitted" /\ decidedAt[i] \in S})

\* the ticks of the one-second window that starts at tick s
Window(s) == s..(s + TicksPerSec - 1)

\* C23 as stated: in every one-second window of the wall clock, also one
\* that straddles a refill, Register admits the key at most Capacity times.
C23_AnyWindowAdmitsAtMostCapacity ==
    \A s \in 0..MaxLimTick : AdmittedIn(Window(s)) <= Capacity

\* C23: between two refills Register admits the key at most Capacity times;
\* in a one-second window that straddles a refill, at most twice Capacity.
C23_WindowAdmitsAtMostCapacityPerRefill ==
    \A s \in 0..MaxLimTick :
        AdmittedIn(Window(s)) <=
            IF SecOf(s) = SecOf(s + TicksPerSec - 1) THEN Capacity
                                                     ELSE 2 * Capacity

\* C23 witness: a window that straddles the refill holds twice Capacity
\* admissions
C23_Witness ==
    /\ AdmittedIn(Window(1)) = 2 * Capacity
    /\ AdmittedIn(Window(0)) = Capacity

\* every request has been answered
AllAnswered == \A i \in Requests : reqPc[i] \in {"admitted", "dropped", "contended"}

\* all requests called Register, and were answered, in one refill window
InOneRefillWindow ==
    \A i, j \in Requests :
        /\ SecOf(arrivedAt[i]) = SecOf(arrivedAt[j])
        /\ SecOf(decidedAt[i]) = SecOf(arrivedAt[j])

NumAnswered(answer) == Cardinality({i \in Requests : reqPc[i] = answer})

\* C24 as stated: of more than Capacity requests in one refill window,
\* exactly Capacity are admitted, in every interleaving.
C24_ExactlyCapacityAdmitted ==
    (AllAnswered /\ InOneRefillWindow) => NumAnswered("admitted") = Capacity

\* C24: of more than Capacity requests in one refill window, at most Capacity
\* are admitted: exactly Capacity of those that found the lock free, or all
\* of them if they are fewer; a request that finds the lock held is dropped.
C24_AtMostCapacityAdmitted ==
    (AllAnswered /\ InOneRefillWindow) =>
        NumAnswered("admitted") =
            MinOf({Capacity, NumRequests - NumAnswered("contended")})

\* C24 witness: all requests came in one refill window, one found the lock
\* held, Capacity were admitted and the last was dropped for want of a token
C24_Witness ==
    /\ AllAnswered
    /\ InOneRefillWindow
    /\ NumAnswered("contended") = 1
    /\ NumAnswered("admitted") = Capacity
    /\ NumAnswered("dropped") = NumRequests - Capacity - 1

\* the first pass cut its text
LintTruncated ==
    lintCfg.MaxLength > 0 /\ Len(LintUncut(lintCfg, lintIn)) > lintCfg.MaxLength

\* the input holds a byte that stage 3 drops
LintDropsBytes ==
    /\ lintCfg.KeepVisible7BitCharOnly
    /\ \E i \in 1..Len(lintIn) : lintIn[i] \notin PrintableBytes

\* C25 as stated: Lint(Lint(S)) = Lint(S), and Lint(S) is no longer than
\* MaxLength when MaxLength > 0.
C25_LintIsIdempotentAndBounded ==
    /\ lintPc \in {"once", "twice"} =>
          (lintCfg.MaxLength > 0 => Len(lintOut) <= lintCfg.MaxLength)
    /\ lintPc = "twice" => lintTwice = lintOut

\* C25: Lint(S) is no longer than MaxLength when MaxLength > 0, and
\* Lint(Lint(S)) = Lint(S) when the first pass neither cut its text nor
\* dropped a byte of S.
C25_LintIsBoundedAndIdempotentWhenNothingIsCut ==
    /\ lintPc \in {"once", "twice"} =>
          (lintCfg.MaxLength > 0 => Len(lintOut) <= lintCfg.MaxLength)
    /\ (lintPc = "twice" /\ ~LintTruncated /\ ~LintDropsBytes) =>
          lintTwice = lintOut

\* C25 witness: every stage enabled, a text that the first pass changed,
\* did not cut and that fills MaxLength, put through twice
C25_Witness ==
    /\ lintPc = "twice"
    /\ lintCfg = [TrimSpaces |-> TRUE, CompressSpaces |-> TRUE,
                  KeepVisible7BitCharOnly |-> TRUE,
                  CompressToSingleLine |-> TRUE, MaxLength |-> 3]
    /\ ~LintTruncated
    /\ ~LintDropsBytes
    /\ lintOut # lintIn
    /\ Len(lintOut) = 3
    /\ lintTwice = lintOut

\* the body begins with the PIN followed by a separator
BeginsWithPINAndSeparator ==
    /\ HasPrefix(pinBody, pinPIN)
    /\ Len(pinBody) > Len(pinPIN)
    /\ IsSpace(CharAt(pinBody, Len(pinPIN) + 1))

\* Invoke has returned UnauthorizedPIN and no feature was executed
PinRejected == pinRet = "UnauthorizedPIN" /\ pinRan = <<>>

\* C26 as stated: a body that does not begin with the PIN and the separator
\* returns UnauthorizedPIN and executes no feature.
C26_BodyWithoutPINAndSeparatorIsRejected ==
    (pinPc = "done" /\ ~BeginsWithPINAndSeparator) => PinRejected

\* C26: a body whose trimmed form does not begin with the PIN returns
\* UnauthorizedPIN and executes no feature, up to and at the return of Invoke;
\* so does a body that equals a shortcut key, and a shortcut is expanded only
\* once the PIN has been found and stripped.
C26_BodyWithoutPINIsRejected ==
    /\ [](~HasPrefix(TrimSpace(pinBody), pinPIN) =>
             /\ pinRan = <<>>
             /\ pinPc \in {"auth", "done"}
             /\ pinPc = "done" => PinRejected)
    /\ []((pinBody \in DOMAIN pinShortcuts /\ pinPc = "done") => PinRejected)
    /\ [][(pinCmd' # pinCmd /\ pinPc = "expand") =>
             HasPrefix(TrimSpace(pinBody), pinPIN)]_vars

\* C26 witness: the body is a shortcut key of the filter, without the PIN,
\* and Invoke has returned
C26_Witness ==
    /\ pinPc = "done"
    /\ pinBody = "httpshortcut"
    /\ pinBody \in DOMAIN pinShortcuts
    /\ PinRejected

\* C27: the flag is 1 only between the start of the loop and the return of
\* StartAndBlock; when StartAndBlock has returned, on either path, the flag
\* is 0, and no later step, a Stop call included, changes it.
C27_FlagIsZeroAfterReturn ==
    /\ [](loopIsRunning = 1 => pc \in {"select", "exec", "stopped", "top"})
    /\ [](pc = "done" =>
             (loopIsRunning = 0 /\ ret \in {"nil", "ErrEmergencyLockDown"}))
    /\ [][pc = "done" => (pc' = "done" /\ loopIsRunning' = 0)]_vars

\* C27 witness: a Stop called while Execute ran was heard after the loop had
\* set the flag again; StartAndBlock returned nil, and a later Stop found the
\* flag at 0
C27_Witness ==
    /\ pc = "done" /\ ret = "nil" /\ loopIsRunning = 0
    /\ Len(execEnds) >= 1
    /\ \E s, u \in Stoppers :
          /\ stopper[s] = "sent" /\ ~stopCas[s].waiting
          /\ stopCas[u].afterReturn /\ stopper[u] = "noop"

\* the configured features whose Initialise returns an error
FailingFeatures == isConfigured \cap initFails

ReportTags == [i \in 1..Len(result) |-> result[i].tag]

\* the tag of the section of a check
TagOfCheck(b, okTag, errTag) == IF checkErr[b].isNil THEN okTag ELSE errTag

\* C30: the package manager runs one after another, the upgrade first and
\* then one install per package, all of them inside SystemMaintenance; no
\* check goroutine exists before SystemMaintenance has returned; the report
\* has its sections in the fixed order, the output of the maintenance in the
\* eighth.
C30_MaintenanceBeforeChecksAndReportOrder ==
    /\ []((spawned > 0 \/ waitAllChecks > 0
              \/ \E b \in Branches : branch[b] # "unborn")
             => (mpc = "returned" /\ maintResult = ConcatAll(maintRet)))
    /\ [](epc # "called" => mpc = "returned")
    /\ [][mpc' # mpc => (epc = "called" /\ spawned = 0 /\ epc' = "called")]_vars
    /\ [][pkgIndex' # pkgIndex =>
             /\ pkgIndex' = pkgIndex + 1
             /\ lastRun.prog \in {"upgrade", "install"}
             /\ lastRun'.prog = "install"]_vars
    /\ [][(lastRun' # lastRun /\ lastRun'.prog = "upgrade") =>
             (pkgIndex = 0 /\ lastRun.prog \notin {"upgrade", "install"})]_vars
    /\ [](Composed =>
             /\ ReportTags =
                   << IF allOK THEN "All OK" ELSE "There are errors!!!",
                      "GetRuntimeInfo", "Daemon stats",
                      TagOfCheck("portsErr", "Ports: OK", "Port errors"),
                      TagOfCheck("featureErr", "Features: OK", "Feature errors"),
                      TagOfCheck("mailCmdRunnerErr", "Mail processor: OK",
                                 "Mail processor errors"),
                      TagOfCheck("httpHandlersErr", "HTTP handlers: OK",
                                 "HTTP handler errors"),
                      "System maintenance", "Warnings", "Logs", "Stack traces" >>
             /\ result[8].detail = ErrOf({ConcatAll(maintRet)}))

\* C30 witness: Execute has returned after yum upgraded the system and
\* installed every package, and an HTTP handler failed its test
C30_Witness ==
    /\ epc = "returned"
    /\ mpc = "returned"
    /\ pkgManagerName = "yum"
    /\ pkgIndex = NumPkgs
    /\ ~checkErr["httpHandlersErr"].isNil
    /\ result[7].tag = "HTTP handler errors"
    /\ result[8].tag = "System maintenance"

\* C31 as stated: no stop request is lost, not even one made after
\* StartAndBlock was invoked and before its first iteration has stored 1 in
\* the flag: the caller goes on to send its message to the loop.  (The flag
\* is 0 then, so the compare-and-swap of Stop fails and the loop is never
\* told.)
C31_NoStopRequestIsLost ==
    \A s \in Stoppers :
        stopCas[s].at = "first" => stopper[s] \in {"sending", "sent"}

\* a stop request made during an Execute that the loop has not received yet
PendingFromExec(s) == stopCas[s].at = "exec" /\ stopper[s] = "sending"

\* C32 as stated: while a stop request made during an Execute is pending no
\* further Execute starts, also when that Execute overran the next scheduled
\* time.
C32_StopDuringExecuteStartsNoFurtherExecute ==
    [][ (\E s \in Stoppers : PendingFromExec(s))
           => Len(execStarts') = Len(execStarts) ]_vars

\* C32 amended: a stop request made during an Execute is taken at the select
\* that follows that Execute when the tick is not due there.  When that
\* Execute overran the next scheduled time both cases of the select are ready
\* and either may be taken: a further Execute starts only at the very moment
\* the previous one ended, at or after the scheduled time.  Once the message
\* is taken StartAndBlock returns nil without waiting; with the request still
\* pending it returns only on lock-down or on another caller's message.
C32_FurtherExecuteOnlyWhenTickIsDue ==
    /\ [][ ((\E s \in Stoppers : PendingFromExec(s))
               /\ Len(execStarts') > Len(execStarts))
              => /\ pc = "select"
                 /\ Len(execEnds) = Len(execStarts)
                 /\ execStarts'[Len(execStarts')] = execEnds[Len(execEnds)]
                 /\ execEnds[Len(execEnds)] >= nextRunAt ]_vars
    /\ [][ ((\E s \in Stoppers : PendingFromExec(s))
               /\ pc = "select" /\ now < nextRunAt /\ pc' # pc)
              => /\ pc' = "stopped"
                 /\ execStarts' = execStarts
                 /\ now' = now ]_vars
    /\ [](\A s \in Stoppers :
            stopCas[s].at = "exec" =>
              /\ stopper[s] = "sent" =>
                   /\ pc \in {"stopped", "done"}
                   /\ now = execEnds[Len(execEnds)]
                   /\ pc = "done" => ret = "nil"
              /\ (stopper[s] = "sending" /\ pc = "done") =>
                   \/ ret = "ErrEmergencyLockDown"
                   \/ ret = "nil" /\ \E u \in Stoppers : stopper[u] = "sent")

\* C32 witness: a Stop was called during an Execute that overran the next
\* scheduled time; the select took the tick first, a further Execute ran, and
\* only then the message was taken and StartAndBlock returned nil
C32_Witness ==
    \E s \in Stoppers :
        /\ stopCas[s].at = "exec"
        /\ stopper[s] = "sent"
        /\ pc = "done" /\ ret = "nil"
        /\ Len(execStarts) >= 2
        /\ execStarts[Len(execStarts)] = execEnds[Len(execStarts) - 1]

\* C33 as stated: every element returned by ExtractNamesFromHostsContent is a
\* single domain name: it contains no white space, also when the hosts line
\* lists several names after the IP token.
C33_ReturnedNamesHoldNoWhiteSpace ==
    hpc = "returned" =>
        \A k \in 1..Len(names) :
            \A i \in 1..Len(names[k]) : ~IsSpace(CharAt(names[k], i))

=============================================================================
